---- MODULE Spec2Model ----
(***************************************************************************)
(* A model of the tfdocs extension: the version constraint resolver, the   *)
(* latest-version cache and the documentation URL built by getResourceData.*)
(*                                                                         *)
(* JavaScript values are modelled as sequences.  A string is the sequence  *)
(* of its characters (one-character TLA+ strings); undefined, null and a   *)
(* function reference are one-element sequences whose element is not a     *)
(* character, so that === between any two values is sequence equality.     *)
(***************************************************************************)
EXTENDS Integers, Sequences, FiniteSets, TLC

VARIABLES
    \* harness of the pure version functions
    lockFileVersion,   \* argument of resolveVersionWithConstraint
    constraints,       \* argument: constraint expression, or Undefined
    strategy,          \* the value of the tfdocs.useConstraint setting
    parsedOut,         \* return value of parseConstraintVersions, or NotCalled
    resolvedOut,       \* return value of resolveVersionWithConstraint, or NotCalled
    verA, verB, verC,  \* three version strings handed to compareVersions
    cmp,               \* the comparator's results on them
    \* the extension process
    lockFile,                    \* .terraform.lock.hcl of the document's directory
    providerLatestVersionCache,  \* provider identity -> latest version, or Undefined
    initNotificationShown,       \* the module-level flag
    call,                        \* each getResourceData call: position and locals
    succeeded,                   \* history: identities a fetch has succeeded for
    prompts,                     \* history: the warning was shown never, once, again
    \* harness of satisfiesConstraint
    candidate,         \* argument: the version string
    constraintArg,     \* argument: one constraint clause
    satisfied,         \* whether it was called, and its return value
    \* harness of the document functions
    document,          \* the lines of the text document
    position,          \* the cursor: line and character, both from 0
    mainFile,          \* what findMainFileInDir meets in the module's directory
    out,               \* the function called on them and what it gave
    \* runTerraformInit and the init process it starts
    processOutput,        \* the chunks the init process writes to its log
    written,              \* how many of them it has written
    logFile,              \* .terraform/logs/<tool>-init.log
    initLock,             \* whether .terraform.lock.hcl exists in that directory
    initPc,               \* where runTerraformInit is
    waitLines,            \* waitForProcess: lines
    currentMilliseconds,  \* waitForProcess: the idle counter
    replaceLine,          \* waitForProcess: replaceLine
    outputWindow,         \* the text of the output channel
    logSeen,              \* history: the log content of the latest read
    \* the diagnostics listeners
    textDocuments,        \* vscode.workspace.textDocuments, and their text
    activeTextEditor,     \* the document of the active editor, or NoEditor
    lockFiles,            \* directory -> whether its .terraform.lock.hcl exists
    watcherEvents,        \* file watcher events not yet delivered
    diagnosticCollection, \* document -> its tfdocs diagnostics
    handled,              \* history: the documents the last handler updated
    \* the provider schema fetch
    schemaCache,          \* working directory -> absent, null or a schema
    diskCache,            \* working directory -> documentation saved on disk
    schemaLock,           \* working directory -> its lock file exists
    fetch,                \* each fetchResourceDocumentation call
    outputFile,           \* working directory -> .terraform/schema-output.json
    command,              \* the schema command in the terminal
    failedFetch           \* history: a failed fetch was stored and not cleared

resolverVars == <<lockFileVersion, constraints, strategy, parsedOut, resolvedOut>>
compareVars == <<verA, verB, verC, cmp>>
extensionVars == <<lockFile, providerLatestVersionCache, initNotificationShown,
                   call, succeeded,
                   prompts>>
satisfiesVars == <<candidate, constraintArg, satisfied>>
documentVars == <<document, position, mainFile, out>>
initVars == <<processOutput, written, logFile, initLock, initPc, waitLines,
              currentMilliseconds, replaceLine, outputWindow, logSeen>>
diagnosticVars == <<textDocuments, activeTextEditor, lockFiles, watcherEvents,
                    diagnosticCollection, handled>>
schemaVars == <<schemaCache, diskCache, schemaLock, fetch, outputFile, command,
                failedFetch>>
sessionVars == <<initVars, diagnosticVars, schemaVars>>
vars == <<resolverVars, compareVars, extensionVars, satisfiesVars,
          documentVars, sessionVars>>

----------------------------------------------------------------------------
(* Values *)

Undefined == <<"undefined">>
Null == <<"null">>
NotCalled == <<"not called">>

Digit == {"0", "1", "2", "3", "4", "5", "6", "7", "8", "9"}
Letter == {"a", "b", "c", "d", "e", "f", "g", "h", "i", "j", "k", "l", "m",
           "n", "o", "p", "q", "r", "s", "t", "u", "v", "w", "x", "y", "z",
           "A", "B", "C", "D", "E", "F", "G", "H", "I", "J", "K", "L", "M",
           "N", "O", "P", "Q", "R", "S", "T", "U", "V", "W", "X", "Y", "Z"}
Whitespace == {" "}
LineTerminator == {"\n", "\r"}

DigitValue(c) ==
    CASE c = "0" -> 0 [] c = "1" -> 1 [] c = "2" -> 2 [] c = "3" -> 3
      [] c = "4" -> 4 [] c = "5" -> 5 [] c = "6" -> 6 [] c = "7" -> 7
      [] c = "8" -> 8 [] c = "9" -> 9

DigitChar(n) ==
    CASE n = 0 -> "0" [] n = 1 -> "1" [] n = 2 -> "2" [] n = 3 -> "3"
      [] n = 4 -> "4" [] n = 5 -> "5" [] n = 6 -> "6" [] n = 7 -> "7"
      [] n = 8 -> "8" [] n = 9 -> "9"

\* The decimal text of a natural number (used to write the inputs).
RECURSIVE Decimal(_)
Decimal(n) == IF n < 10 THEN <<DigitChar(n)>>
              ELSE Append(Decimal(n \div 10), DigitChar(n % 10))

\* The index just past the longest run of characters of class cls that
\* starts at index i of s (i itself when there is none): a greedy cls*.
RECURSIVE RunEnd(_, _, _)
RunEnd(s, i, cls) ==
    IF i <= Len(s) /\ s[i] \in cls THEN RunEnd(s, i + 1, cls) ELSE i

\* parseInt(text, 10) of the digits s[from..to-1].
RECURSIVE parseInt(_, _, _)
parseInt(s, from, to) ==
    IF to <= from THEN 0
    ELSE 10 * parseInt(s, from, to - 1) + DigitValue(s[to - 1])

\* \d+\.\d+\.\d+ matched at index i of s: the ends of the three digit runs,
\* or ok = FALSE.  Each run is followed by a non-digit, so the greedy runs
\* are the only way to match.
CorePatch(s, e1, e2, e3) ==
    IF e3 = e2 + 1 THEN [ok |-> FALSE]
    ELSE [ok |-> TRUE, e1 |-> e1, e2 |-> e2, e3 |-> e3]

CoreMinor(s, e1, e2) ==
    IF e2 = e1 + 1 \/ e2 > Len(s) \/ s[e2] # "." THEN [ok |-> FALSE]
    ELSE CorePatch(s, e1, e2, RunEnd(s, e2 + 1, Digit))

CoreMajor(s, i, e1) ==
    IF e1 = i \/ e1 > Len(s) \/ s[e1] # "." THEN [ok |-> FALSE]
    ELSE CoreMinor(s, e1, RunEnd(s, e1 + 1, Digit))

CoreAt(s, i) == CoreMajor(s, i, RunEnd(s, i, Digit))

----------------------------------------------------------------------------
(* Semantic versions *)

\* The null parseSemanticVersion returns (a record, as its other results are).
NoVersion == [null |-> TRUE]

\* The SemanticVersion built from a match m of the three numbers.
SemanticVersion(version, m, prerelease) ==
    [major |-> parseInt(version, 1, m.e1),
     minor |-> parseInt(version, m.e1 + 1, m.e2),
     patch |-> parseInt(version, m.e2 + 1, m.e3),
     prerelease |-> prerelease,
     original |-> version]

\* The rest of the match after the three numbers: the end of the text, or a
\* hyphen and at least one character (any but a line terminator).
parseWithCore(version, m) ==
    IF ~m.ok THEN NoVersion
    ELSE IF m.e3 = Len(version) + 1
    THEN SemanticVersion(version, m, Undefined)
    ELSE IF /\ version[m.e3] = "-"
            /\ m.e3 + 1 <= Len(version)
            /\ \A k \in (m.e3 + 1)..Len(version) :
                   version[k] \notin LineTerminator
    THEN SemanticVersion(version, m, SubSeq(version, m.e3 + 1, Len(version)))
    ELSE NoVersion

\* /^(\d+)\.(\d+)\.(\d+)(?:-(.+))?$/
parseSemanticVersion(version) == parseWithCore(version, CoreAt(version, 1))

\* The collation order String.prototype.localeCompare uses on the characters
\* a prerelease tag is made of: punctuation, then digits, then letters.
Collation == <<"-", ".", "0", "1", "2", "3", "4", "5", "6", "7", "8", "9",
               "a", "b", "c", "d", "e", "f", "g", "h", "i", "j", "k", "l",
               "m", "n", "o", "p", "q", "r", "s", "t", "u", "v", "w", "x",
               "y", "z">>
CollationRank(c) == CHOOSE k \in 1..Len(Collation) : Collation[k] = c

RECURSIVE localeCompare(_, _)
localeCompare(s, t) ==
    IF s = <<>> /\ t = <<>> THEN 0
    ELSE IF s = <<>> THEN -1
    ELSE IF t = <<>> THEN 1
    ELSE IF CollationRank(Head(s)) < CollationRank(Head(t)) THEN -1
    ELSE IF CollationRank(Head(s)) > CollationRank(Head(t)) THEN 1
    ELSE localeCompare(Tail(s), Tail(t))

\* a.prerelease as a condition: undefined is falsy, a captured tag is not
\* empty and so truthy.
Truthy(v) == v # Undefined /\ v # Null /\ v # <<>>

\* The comparator with the 'release above its prerelease' branch left out.
compareVersions_NoReleaseBranch(a, b) ==
    IF a.major # b.major THEN a.major - b.major
    ELSE IF a.minor # b.minor THEN a.minor - b.minor
    ELSE IF a.patch # b.patch THEN a.patch - b.patch
    ELSE IF Truthy(a.prerelease) /\ ~Truthy(b.prerelease) THEN -1
    ELSE IF Truthy(a.prerelease) /\ Truthy(b.prerelease)
         THEN localeCompare(a.prerelease, b.prerelease)
    ELSE 0

compareVersions(a, b) ==
    IF a.major # b.major THEN a.major - b.major
    ELSE IF a.minor # b.minor THEN a.minor - b.minor
    ELSE IF a.patch # b.patch THEN a.patch - b.patch
    ELSE IF Truthy(a.prerelease) /\ ~Truthy(b.prerelease) THEN -1
    ELSE IF ~Truthy(a.prerelease) /\ Truthy(b.prerelease) THEN 1
    ELSE IF Truthy(a.prerelease) /\ Truthy(b.prerelease)
         THEN localeCompare(a.prerelease, b.prerelease)
    ELSE 0

----------------------------------------------------------------------------
(* Constraint expressions *)

RECURSIVE trimStart(_)
trimStart(s) ==
    IF s # <<>> /\ Head(s) \in Whitespace THEN trimStart(Tail(s)) ELSE s

RECURSIVE trimEnd(_)
trimEnd(s) ==
    IF s # <<>> /\ s[Len(s)] \in Whitespace
    THEN trimEnd(SubSeq(s, 1, Len(s) - 1)) ELSE s

trim(s) == trimEnd(trimStart(s))

\* s.split(sep): the pieces between the separators, at least one piece.
RECURSIVE split(_, _)
split(s, sep) ==
    IF \E i \in 1..Len(s) : s[i] = sep
    THEN LET i == CHOOSE k \in 1..Len(s) :
                      s[k] = sep /\ \A j \in 1..(k - 1) : s[j] # sep
         IN  <<SubSeq(s, 1, i - 1)>> \o split(SubSeq(s, i + 1, Len(s)), sep)
    ELSE <<s>>

includes(list, x) == \E i \in 1..Len(list) : list[i] = x

OperatorChar == {">", "=", "<", "~"}
PrereleaseChar == Letter \cup Digit \cup {".", "-"}

\* The optional (?:-[a-zA-Z0-9.-]+) after the three numbers: the index just
\* past it, or e3 when no tag character follows the hyphen.
PrereleaseEnd(s, e3) ==
    IF e3 + 1 <= Len(s) /\ s[e3] = "-" /\ s[e3 + 1] \in PrereleaseChar
    THEN RunEnd(s, e3 + 1, PrereleaseChar)
    ELSE e3

CaptureFrom(s, q, m) ==
    IF ~m.ok THEN [ok |-> FALSE]
    ELSE [ok |-> TRUE, group1 |-> SubSeq(s, q, PrereleaseEnd(s, m.e3) - 1)]

CaptureAt(s, q) == CaptureFrom(s, q, CoreAt(s, q))

\* /[>=<~]*\s*(\d+\.\d+\.\d+(?:-[a-zA-Z0-9.-]+)?)/ tried at index p.  The
\* operator and whitespace runs are greedy, and giving characters back never
\* helps: the character given back is no digit.
VersionRegexAt(s, p) ==
    CaptureAt(s, RunEnd(s, RunEnd(s, p, OperatorChar), Whitespace))

\* constraint.match(regex): the match at the leftmost index that has one.
RECURSIVE VersionRegexFrom(_, _)
FirstMatch(s, p, m) == IF m.ok THEN m ELSE VersionRegexFrom(s, p + 1)
VersionRegexFrom(s, p) ==
    IF p > Len(s) + 1 THEN [ok |-> FALSE]
    ELSE FirstMatch(s, p, VersionRegexAt(s, p))

versionMatch(constraint) == VersionRegexFrom(constraint, 1)

\* The push without the versions.includes test.
pushVersion_NoDedupe(versions, m) ==
    IF m.ok THEN Append(versions, m.group1) ELSE versions

\* The loop of parseConstraintVersions over the trimmed parts.
pushVersion(versions, m) ==
    IF m.ok /\ ~includes(versions, m.group1)
    THEN Append(versions, m.group1)
    ELSE versions

RECURSIVE collectVersions(_, _)
collectVersions(constraintParts, versions) ==
    IF constraintParts = <<>> THEN versions
    ELSE collectVersions(Tail(constraintParts),
                         pushVersion(versions,
                                     versionMatch(Head(constraintParts))))

trimAll(parts) == [i \in 1..Len(parts) |-> trim(parts[i])]

parseConstraintVersions(cs) == collectVersions(trimAll(split(cs, ",")), <<>>)

----------------------------------------------------------------------------
(* Version resolution *)

Text_low == <<"l", "o", "w">>
Text_middle == <<"m", "i", "d", "d", "l", "e">>
Text_high == <<"h", "i", "g", "h">>
Text_latest == <<"l", "a", "t", "e", "s", "t">>

\* The binding the resolver imports from ./config.  It is the accessor
\* () => config.get('useConstraint', 'high') itself, which the resolver
\* never calls: a function reference, equal to no string.
useConstraint == <<"function useConstraint">>

\* a === b
StrictEquals(a, b) == a = b

\* parsedVersions.sort((a, b) => compareVersions(b, a)): a stable sort,
\* newest first.
RECURSIVE insertSorted(_, _)
insertSorted(sorted, x) ==
    IF sorted = <<>> THEN <<x>>
    ELSE IF compareVersions(Head(sorted), x) < 0 THEN <<x>> \o sorted
    ELSE <<Head(sorted)>> \o insertSorted(Tail(sorted), x)

RECURSIVE sortDescending(_)
sortDescending(list) ==
    IF list = <<>> THEN <<>>
    ELSE insertSorted(sortDescending(SubSeq(list, 1, Len(list) - 1)),
                      list[Len(list)])

parseAll(versions) ==
    [i \in 1..Len(versions) |-> parseSemanticVersion(versions[i])]

\* Lines 180-208: the choice among the parsed versions, sorted newest first.
selectVersion(lockVersion, parsedVersions) ==
    IF Len(parsedVersions) = 0 THEN lockVersion
    ELSE IF StrictEquals(useConstraint, Text_low)
         THEN parsedVersions[Len(parsedVersions)].original
    ELSE IF StrictEquals(useConstraint, Text_middle)
         THEN parsedVersions[(Len(parsedVersions) \div 2) + 1].original
    ELSE lockVersion

\* A single version of the constraints answered with 'latest'.
resolveFromVersions_SingleIsLatest(lockVersion, constraintVersions) ==
    IF Len(constraintVersions) = 0 THEN lockVersion
    ELSE IF Len(constraintVersions) = 1 THEN Text_latest
    ELSE selectVersion(
             lockVersion,
             sortDescending(SelectSeq(parseAll(constraintVersions),
                                      LAMBDA v : v # NoVersion)))

\* Lines 163-186: from the versions the constraints hold.
resolveFromVersions(lockVersion, constraintVersions) ==
    IF Len(constraintVersions) = 0 THEN lockVersion
    ELSE IF Len(constraintVersions) = 1 THEN constraintVersions[1]
    ELSE selectVersion(
             lockVersion,
             sortDescending(SelectSeq(parseAll(constraintVersions),
                                      LAMBDA v : v # NoVersion)))

\* The resolver answering 'latest' when there are no constraints.
resolveVersion_LatestWithoutConstraints(lockVersion, cs) ==
    IF cs = Undefined \/ cs = <<>> THEN Text_latest
    ELSE IF StrictEquals(useConstraint, Text_high) THEN lockVersion
    ELSE resolveFromVersions(lockVersion, parseConstraintVersions(cs))

resolveVersionWithConstraint(lockVersion, cs) ==
    IF cs = Undefined \/ cs = <<>> THEN lockVersion
    ELSE IF StrictEquals(useConstraint, Text_high) THEN lockVersion
    ELSE resolveFromVersions(lockVersion, parseConstraintVersions(cs))

----------------------------------------------------------------------------
(* Inputs of the pure version functions *)

MaxClauses == 3
MaxPatch == 1

Dot == <<".">>
VersionText(major, minor, patch) ==
    Decimal(major) \o Dot \o Decimal(minor) \o Dot \o Decimal(patch)
Tag_rc == <<"r", "c">>
Tag_beta == <<"b", "e", "t", "a">>

LockedVersions == {VersionText(1, 2, 3), VersionText(1, 7, 0)}

Strategies == {Text_low, Text_middle, Text_high, <<"n", "e", "w", "e", "s", "t">>}

\* Constraint clauses as a lock file holds them: with and without a space
\* after the operator, one literal under two operators, a two-digit minor,
\* a prerelease, and a clause ("~> 5.0") that holds no version literal.
Clauses ==
    { <<">", "=", " ">> \o VersionText(1, 6, 0),
      <<">", "=", " ">> \o VersionText(1, 7, 0),
      <<">", "=", " ">> \o VersionText(1, 8, 0),
      <<"~", ">">> \o VersionText(1, 10, 0),
      <<"=", " ">> \o VersionText(1, 6, 0),
      <<"~", ">", " ", "5", ".", "0">>,
      <<"<", " ">> \o VersionText(1, 7, 0) \o <<"-">> \o Tag_rc }

RECURSIVE join(_, _)
join(list, sep) ==
    IF list = <<>> THEN <<>>
    ELSE IF Len(list) = 1 THEN list[1]
    ELSE list[1] \o sep \o join(Tail(list), sep)

ClauseLists == UNION {[1..n -> Clauses] : n \in 0..MaxClauses}
ConstraintInputs ==
    {Undefined} \cup {join(l, <<",", " ">>) : l \in ClauseLists}

VersionInputs ==
    LET plain == {VersionText(a, b, c) :
                      a \in {1, 2}, b \in {9, 10}, c \in 0..MaxPatch}
    IN  plain \cup {v \o <<"-">> \o t : v \in plain, t \in {Tag_rc, Tag_beta}}

----------------------------------------------------------------------------
(* The extension process: lock file, registry, latest-version cache *)

\* Provider identities, `${namespace}/${provider}`: the cache key and the
\* key of the lock file's provider map.
Identities == {"hashicorp/aws", "hashicorp/google"}

\* The call sites of getResourceData that may be in flight together.
Callers == {"hover", "documentLink"}

NoProvider == [present |-> FALSE]
Provider(version, cs) ==
    [present |-> TRUE, version |-> version, constraints |-> cs]

\* What parseTerraformLockFile yields for a provider block: no block, a
\* block without a version line (version ''), a version alone, a version
\* with its constraints.
LockFiles ==
    {[state |-> "missing"], [state |-> "unreadable"]}
    \cup
    {[state |-> "readable",
      providers |-> [id \in Identities |->
                        IF id = "hashicorp/aws" THEN aws ELSE google]] :
        aws \in {NoProvider,
                 Provider(<<>>, Undefined),
                 Provider(VersionText(1, 7, 0), Undefined),
                 Provider(VersionText(1, 7, 0),
                          <<">", "=", " ">> \o VersionText(1, 6, 0))},
        google \in {NoProvider, Provider(VersionText(1, 7, 0), Undefined)}}

\* An entry of data.included.
VersionInfo(type, publishedAt, version) ==
    [type |-> type, publishedAt |-> publishedAt, version |-> version]

\* What the registry may answer to one fetch: the fetch rejects, the status
\* is not OK, the body is not JSON, or a document whose included member is
\* no array or a list of entries.
Responses ==
    {[rejects |-> TRUE, ok |-> FALSE, parses |-> FALSE,
      includedIsArray |-> FALSE, included |-> <<>>],
     [rejects |-> FALSE, ok |-> FALSE, parses |-> TRUE,
      includedIsArray |-> TRUE, included |-> <<>>],
     [rejects |-> FALSE, ok |-> TRUE, parses |-> FALSE,
      includedIsArray |-> FALSE, included |-> <<>>],
     [rejects |-> FALSE, ok |-> TRUE, parses |-> TRUE,
      includedIsArray |-> FALSE, included |-> <<>>]}
    \cup
    {[rejects |-> FALSE, ok |-> TRUE, parses |-> TRUE,
      includedIsArray |-> TRUE, included |-> inc] :
        inc \in {<<>>,
                 <<VersionInfo("provider-aliases", 2, VersionText(1, 7, 0))>>,
                 <<VersionInfo("provider-versions", 1, VersionText(1, 6, 0)),
                   VersionInfo("provider-versions", 2, VersionText(1, 7, 0))>>,
                 <<VersionInfo("provider-versions", 2, VersionText(1, 6, 0)),
                   VersionInfo("provider-versions", 1, VersionText(1, 7, 0))>>}}

\* What getResourceData returns: undefined, or a URL action.
NoAction == [type |-> "undefined"]

IdleCall ==
    [pc |-> "idle",
     identity |-> "",
     entrySeen |-> [present |-> FALSE, state |-> "unread"],
                                    \* history: what the lock file read gave
     providerVersion |-> Undefined,
     lookup |-> "none",             \* none, pending, cached, fetched, failed
     latestVersion |-> Undefined,
     result |-> NoAction]

ExtensionIdle ==
    /\ lockFile = [state |-> "missing"]
    /\ providerLatestVersionCache = [id \in Identities |-> Undefined]
    /\ initNotificationShown = FALSE
    /\ call = [c \in Callers |-> IdleCall]
    /\ succeeded = {}
    /\ prompts = "never"

----------------------------------------------------------------------------
(* The init process, the diagnostics listeners and the schema fetch at rest *)

\* A file that does not exist, and one that does
NoFile == [exists |-> FALSE]
File(text) == [exists |-> TRUE, content |-> text]

InitIdle ==
    /\ processOutput = <<>> /\ written = 0
    /\ logFile = NoFile /\ initLock = FALSE
    /\ initPc = "idle"
    /\ waitLines = <<>> /\ currentMilliseconds = -1 /\ replaceLine = FALSE
    /\ outputWindow = <<>> /\ logSeen = <<>>

\* Two Terraform documents in two directories and one document of another
\* language beside the first.
DocumentNames == {"a/main.tf", "b/main.tf", "a/notes.md"}
Directories == {"a", "b"}
NoEditor == "no editor"
dirname(d) == IF d = "b/main.tf" THEN "b" ELSE "a"
languageId(d) == IF d = "a/notes.md" THEN "markdown" ELSE "terraform"
ClosedDocument == [open |-> FALSE, text |-> <<>>]

DiagnosticsIdle ==
    /\ textDocuments = [d \in DocumentNames |-> ClosedDocument]
    /\ activeTextEditor = NoEditor
    /\ lockFiles = [dir \in Directories |-> FALSE]
    /\ watcherEvents = 0
    /\ diagnosticCollection = [d \in DocumentNames |-> <<>>]
    /\ handled = {}

\* The schema fetch is followed in one working directory.  The hover
\* provider may call again while a call is waiting.
WorkingDirectories == {"a"}
SchemaCallers == {"first", "second"}
NoFetch ==
    [pc |-> "idle", dir |-> "none", name |-> "none", polls |-> 0,
     kind |-> "none", how |-> "none", result |-> "none"]
NoCommand == [state |-> "none", kind |-> "none", written |-> 0, attached |-> FALSE]

SchemaIdle ==
    /\ schemaCache = [dir \in WorkingDirectories |-> "absent"]
    /\ diskCache = [dir \in WorkingDirectories |-> FALSE]
    /\ schemaLock = [dir \in WorkingDirectories |-> FALSE]
    /\ fetch = [c \in SchemaCallers |-> NoFetch]
    /\ outputFile = [dir \in WorkingDirectories |-> NoFile]
    /\ command = [c \in SchemaCallers |-> NoCommand]
    /\ failedFetch = [dir \in WorkingDirectories |-> FALSE]

SessionIdle == InitIdle /\ DiagnosticsIdle /\ SchemaIdle

----------------------------------------------------------------------------
(* The resolver called on every input *)

CompareIdle ==
    /\ verA = Undefined /\ verB = Undefined /\ verC = Undefined
    /\ cmp = [called |-> FALSE]

ResolverIdle ==
    /\ lockFileVersion = Undefined /\ constraints = Undefined
    /\ parsedOut = NotCalled /\ resolvedOut = NotCalled

SatisfiesIdle ==
    /\ candidate = Undefined /\ constraintArg = Undefined
    /\ satisfied = [called |-> FALSE]

\* No function of the document harness has been called.
NoCall == [op |-> "none"]

DocumentIdle ==
    /\ document = <<>>
    /\ position = [line |-> 0, character |-> 0]
    /\ mainFile = "none"
    /\ out = NoCall

InitResolver ==
    /\ SessionIdle
    /\ lockFileVersion \in LockedVersions
    /\ constraints \in ConstraintInputs
    /\ strategy \in Strategies
    /\ parsedOut = NotCalled
    /\ resolvedOut = NotCalled
    /\ CompareIdle
    /\ ExtensionIdle
    /\ SatisfiesIdle
    /\ DocumentIdle

CallParseConstraintVersions ==
    /\ parsedOut = NotCalled
    /\ constraints # Undefined
    /\ parsedOut' = parseConstraintVersions(constraints)
    /\ UNCHANGED <<lockFileVersion, constraints, strategy, resolvedOut>>
    /\ UNCHANGED <<compareVars, extensionVars, satisfiesVars, documentVars, sessionVars>>

CallResolveVersion ==
    /\ resolvedOut = NotCalled
    /\ resolvedOut' = resolveVersionWithConstraint(lockFileVersion, constraints)
    /\ UNCHANGED <<lockFileVersion, constraints, strategy, parsedOut>>
    /\ UNCHANGED <<compareVars, extensionVars, satisfiesVars, documentVars, sessionVars>>

NextResolver == CallParseConstraintVersions \/ CallResolveVersion

SpecResolver == InitResolver /\ [][NextResolver]_vars

----------------------------------------------------------------------------
(* The comparator called on every triple of versions *)

InitCompare ==
    /\ SessionIdle
    /\ verA \in VersionInputs
    /\ verB \in VersionInputs
    /\ verC \in VersionInputs
    /\ cmp = [called |-> FALSE]
    /\ ResolverIdle
    /\ strategy = Text_high
    /\ ExtensionIdle
    /\ SatisfiesIdle
    /\ DocumentIdle

CallCompareVersions ==
    /\ ~cmp.called
    /\ LET a == parseSemanticVersion(verA)
           b == parseSemanticVersion(verB)
           c == parseSemanticVersion(verC)
       IN  cmp' = [called |-> TRUE,
                   aa |-> compareVersions(a, a),
                   ab |-> compareVersions(a, b),
                   ba |-> compareVersions(b, a),
                   bc |-> compareVersions(b, c),
                   ac |-> compareVersions(a, c)]
    /\ UNCHANGED <<verA, verB, verC>>
    /\ UNCHANGED <<resolverVars, extensionVars, satisfiesVars, documentVars, sessionVars>>

NextCompare == CallCompareVersions

SpecCompare == InitCompare /\ [][NextCompare]_vars

----------------------------------------------------------------------------
(* Claims about the version functions *)

Sign(n) == IF n < 0 THEN -1 ELSE IF n > 0 THEN 1 ELSE 0

\* The versions the constraint expression yields, when there is one.
Extracted == parseConstraintVersions(constraints)
SeveralExtracted ==
    /\ constraints # Undefined
    /\ Len(Extracted) >= 2

\* C1: with strategy 'low' and two or more distinct extracted versions, the
\* resolver returns an extracted version that no other extracted version is
\* below in the version order.
C1_LowReturnsSmallest ==
    (resolvedOut # NotCalled /\ strategy = Text_low /\ SeveralExtracted)
    => /\ includes(Extracted, resolvedOut)
       /\ \A i \in 1..Len(Extracted) :
              compareVersions(parseSemanticVersion(resolvedOut),
                              parseSemanticVersion(Extracted[i])) <= 0

\* C2: with strategy 'middle' and n >= 2 distinct extracted versions, the
\* resolver returns the element at zero-based index floor(n/2) of the
\* versions sorted newest first.
C2_MiddleReturnsFloorHalf ==
    (resolvedOut # NotCalled /\ strategy = Text_middle /\ SeveralExtracted)
    => LET sorted == sortDescending(
                         [i \in 1..Len(Extracted) |->
                              parseSemanticVersion(Extracted[i])])
       IN  resolvedOut = sorted[(Len(Extracted) \div 2) + 1].original

\* C3: with strategy 'high' the resolver returns the locked version for
\* every constraint expression.
C3_HighReturnsLocked ==
    (resolvedOut # NotCalled /\ strategy = Text_high)
    => resolvedOut = lockFileVersion

\* C4: with the constraint expression absent or empty the resolver returns
\* the locked version, whatever the strategy.
C4_NoConstraintsReturnsLocked ==
    (resolvedOut # NotCalled /\ (constraints = Undefined \/ constraints = <<>>))
    => resolvedOut = lockFileVersion

C4_Witness ==
    /\ resolvedOut # NotCalled
    /\ constraints = <<>>
    /\ strategy = Text_low
    /\ resolvedOut = VersionText(1, 2, 3)

\* C5: with a strategy other than 'low', 'middle' and 'high' the resolver
\* returns the locked version for every constraint expression.
C5_UnknownStrategyReturnsLocked ==
    (resolvedOut # NotCalled
        /\ strategy \notin {Text_low, Text_middle, Text_high})
    => resolvedOut = lockFileVersion

\* A version literal: digits, dot, digits, dot, digits, and optionally a
\* hyphen and a tag of letters, digits, dots and hyphens.
IsDigits(t) == t # <<>> /\ \A k \in 1..Len(t) : t[k] \in Digit
IsVersionLiteral(t) ==
    \E i, j \in 1..Len(t) :
        /\ i < j
        /\ t[i] = "." /\ t[j] = "."
        /\ IsDigits(SubSeq(t, 1, i - 1))
        /\ IsDigits(SubSeq(t, i + 1, j - 1))
        /\ \/ IsDigits(SubSeq(t, j + 1, Len(t)))
           \/ \E h \in (j + 2)..(Len(t) - 1) :
                  /\ t[h] = "-"
                  /\ IsDigits(SubSeq(t, j + 1, h - 1))
                  /\ \A k \in (h + 1)..Len(t) : t[k] \in PrereleaseChar

\* The first version literal of a clause: of the literals that start
\* leftmost, the longest; <<>> when the clause holds none.
LiteralSpans(clause) ==
    {sp \in (1..Len(clause)) \X (1..Len(clause)) :
         sp[1] <= sp[2] /\ IsVersionLiteral(SubSeq(clause, sp[1], sp[2]))}
FirstLiteral(clause) ==
    IF LiteralSpans(clause) = {} THEN <<>>
    ELSE LET sp == CHOOSE x \in LiteralSpans(clause) :
                       \A y \in LiteralSpans(clause) :
                           \/ x[1] < y[1]
                           \/ (x[1] = y[1] /\ x[2] >= y[2])
         IN  SubSeq(clause, sp[1], sp[2])

\* The comma-separated clauses of the constraint expression, by the places
\* of its commas, and the first literal of each, in clause order.
CommaPlaces == {i \in 1..Len(constraints) : constraints[i] = ","}
ClauseCount == Cardinality(CommaPlaces) + 1
ClauseAt(k) ==
    LET before == {i \in CommaPlaces :
                       Cardinality({j \in CommaPlaces : j <= i}) = k - 1}
        after == {i \in CommaPlaces :
                      Cardinality({j \in CommaPlaces : j <= i}) = k}
        start == IF before = {} THEN 1 ELSE (CHOOSE i \in before : TRUE) + 1
        stop == IF after = {} THEN Len(constraints) + 1
                ELSE CHOOSE i \in after : TRUE
    IN  SubSeq(constraints, start, stop - 1)
RECURSIVE ClauseLiterals(_)
ClauseLiterals(k) ==
    IF k = 0 THEN <<>>
    ELSE Append(ClauseLiterals(k - 1), FirstLiteral(ClauseAt(k)))

\* C6: parseConstraintVersions returns the first version literal of each
\* clause, operator discarded, without duplicates and in first-seen order; a
\* clause with no literal contributes nothing, so the result is no longer
\* than the number of clauses.
C6_ParseConstraintVersions ==
    parsedOut # NotCalled
    => LET lits == ClauseLiterals(ClauseCount)
           firstSeen(v) == CHOOSE k \in 1..Len(lits) :
                               lits[k] = v /\ \A h \in 1..(k - 1) : lits[h] # v
       IN  /\ Len(parsedOut) <= ClauseCount
           /\ \A i \in 1..Len(parsedOut) :
                  parsedOut[i] # <<>> /\ includes(lits, parsedOut[i])
           /\ \A k \in 1..Len(lits) :
                  lits[k] # <<>> => includes(parsedOut, lits[k])
           /\ \A i, j \in 1..Len(parsedOut) :
                  i < j => /\ parsedOut[i] # parsedOut[j]
                           /\ firstSeen(parsedOut[i]) < firstSeen(parsedOut[j])

\* '~>1.10.0, ~> 5.0, = 1.6.0' style input: a duplicate literal and a clause
\* without a literal, so the result is shorter than the clause list.
C6_Witness ==
    /\ parsedOut = <<VersionText(1, 10, 0), VersionText(1, 6, 0)>>
    /\ ClauseCount = 3
    /\ constraints[1] = "~"
    /\ FirstLiteral(ClauseAt(2)) = <<>>

\* C7: compareVersions is a strict weak ordering on valid versions, and a
\* version without prerelease is greater than the same major.minor.patch
\* with a prerelease.
C7_StrictWeakOrdering ==
    cmp.called
    => /\ cmp.aa = 0
       /\ Sign(cmp.ab) = -Sign(cmp.ba)
       /\ (cmp.ab < 0 /\ cmp.bc < 0) => cmp.ac < 0
       /\ (cmp.ab = 0 /\ cmp.bc = 0) => cmp.ac = 0
       /\ (/\ \A k \in 1..Len(verA) : verA[k] # "-"
           /\ Len(verB) > Len(verA) + 1
           /\ SubSeq(verB, 1, Len(verA) + 1) = verA \o <<"-">>)
          => cmp.ab > 0

\* 1.9.0 < 1.10.0-beta < 1.10.0: numeric minor order and a prerelease
\* below its release.
C7_Witness ==
    /\ cmp.called
    /\ verA = VersionText(1, 9, 0)
    /\ verB = VersionText(1, 10, 0) \o <<"-">> \o Tag_beta
    /\ verC = VersionText(1, 10, 0)
    /\ cmp.ab < 0 /\ cmp.bc < 0 /\ cmp.ac < 0

----------------------------------------------------------------------------
(* getLatestProviderVersion and getResourceData *)

\* The cache check answering 'no entry' whatever the cache holds.
CacheHas_Never(cache, cacheKey) == FALSE

\* providerLatestVersionCache.has(cacheKey)
CacheHas(cache, cacheKey) == cache[cacheKey] # Undefined

\* The loop over data.included: the version of the provider-versions entry
\* published last, the earlier entry on a tie; null when there is none.
\* latestDate is <<>> while it is null, else the one date <<d>>.
RECURSIVE scanIncluded(_, _, _)
scanIncluded(included, latestVersion, latestDate) ==
    IF included = <<>> THEN latestVersion
    ELSE LET versionInfo == Head(included)
         IN  IF /\ versionInfo.type = "provider-versions"
                /\ (latestDate = <<>> \/ versionInfo.publishedAt > latestDate[1])
             THEN scanIncluded(Tail(included), versionInfo.version,
                               <<versionInfo.publishedAt>>)
             ELSE scanIncluded(Tail(included), latestVersion, latestDate)

\* What getLatestProviderVersion makes of a response: the latest version,
\* or null on a rejected fetch, a non-OK status, a body that does not parse,
\* or no version found (the try/catch turns every throw into null).
LatestFromResponse(response) ==
    IF response.rejects THEN Null
    ELSE IF ~response.ok THEN Null
    ELSE IF ~response.parses THEN Null
    ELSE IF ~response.includedIsArray THEN Null
    ELSE scanIncluded(response.included, Null, <<>>)

\* The cache written only while it holds no entry: the first write is kept.
CacheAfterFetch_FirstWriteWins(cache, cacheKey, latestVersion) ==
    IF Truthy(latestVersion) /\ cache[cacheKey] = Undefined
    THEN [cache EXCEPT ![cacheKey] = latestVersion]
    ELSE cache

\* The cache written without the test of latestVersion: a null is stored.
CacheAfterFetch_StoresNull(cache, cacheKey, latestVersion) ==
    [cache EXCEPT ![cacheKey] = latestVersion]

\* if (latestVersion) providerLatestVersionCache.set(cacheKey, latestVersion)
CacheAfterFetch(cache, cacheKey, latestVersion) ==
    IF Truthy(latestVersion)
    THEN [cache EXCEPT ![cacheKey] = latestVersion]
    ELSE cache

\* The version of the entry taken as it is, also when it is empty.
LockedVersion_NoFallback(providerInfo) ==
    IF providerInfo.present THEN providerInfo.version ELSE Text_latest

\* providerInfo?.version || 'latest'
LockedVersion(providerInfo) ==
    IF providerInfo.present /\ Truthy(providerInfo.version)
    THEN providerInfo.version ELSE Text_latest

\* Lines 510-520: the constraint strategy applied to the locked version.
WithStrategy(providerInfo, version) ==
    IF /\ providerInfo.present
       /\ Truthy(providerInfo.constraints)
       /\ ~StrictEquals(version, Text_latest)
       /\ ~StrictEquals(useConstraint, Text_high)
    THEN resolveVersionWithConstraint(version, providerInfo.constraints)
    ELSE version

\* Lines 506-525: the version the lock file gives for the identity, with
\* the constraint strategy applied; 'latest' when the file cannot be read.
ProviderVersionFromLock(file, id) ==
    IF file.state # "readable" THEN Text_latest
    ELSE WithStrategy(file.providers[id], LockedVersion(file.providers[id]))

EntrySeen(file, id) ==
    IF file.state # "readable" THEN [present |-> FALSE, state |-> file.state]
    ELSE file.providers[id]

\* 'latest' for every successful lookup, equal to the resolved version or not.
UrlVersion_AnyLatest(providerVersion, latestVersion) ==
    IF Truthy(latestVersion) THEN Text_latest ELSE providerVersion

\* Lines 530-541: the version segment of the URL.
UrlVersion(providerVersion, latestVersion) ==
    IF /\ ~StrictEquals(providerVersion, Text_latest)
       /\ Truthy(latestVersion)
       /\ StrictEquals(providerVersion, latestVersion)
    THEN Text_latest
    ELSE providerVersion

UrlAction(id, urlVersion) ==
    [type |-> "url", identity |-> id, version |-> urlVersion]

\* getResourceData from the lock file read (line 506) to its next await or
\* its return: sets the flag, and for an exact version either answers from
\* the cache or leaves the fetch in flight.
FromLockFile(c, id) ==
    \E providerVersion \in {ProviderVersionFromLock(lockFile, id)} :
    \E base \in {[call[c] EXCEPT !.identity = id,
                                 !.entrySeen = EntrySeen(lockFile, id),
                                 !.providerVersion = providerVersion]} :
        /\ initNotificationShown' = TRUE
        /\ IF StrictEquals(providerVersion, Text_latest)
           THEN call' = [call EXCEPT ![c] =
                    [base EXCEPT !.pc = "done",
                                 !.result = UrlAction(id, Text_latest)]]
           ELSE IF CacheHas(providerLatestVersionCache, id)
           THEN call' = [call EXCEPT ![c] =
                    [base EXCEPT !.pc = "done",
                                 !.lookup = "cached",
                                 !.latestVersion = providerLatestVersionCache[id],
                                 !.result = UrlAction(id,
                                     UrlVersion(providerVersion,
                                                providerLatestVersionCache[id]))]]
           ELSE call' = [call EXCEPT ![c] =
                    [base EXCEPT !.pc = "fetching", !.lookup = "pending"]]
        /\ UNCHANGED <<lockFile, providerLatestVersionCache, succeeded, prompts>>

\* getResourceData is called on a declaration line of provider id.  With the
\* lock file missing and the flag clear it shows the warning and waits.
GetResourceData(c, id) ==
    /\ call[c].pc = "idle"
    /\ IF lockFile.state = "missing" /\ ~initNotificationShown
       THEN /\ call' = [call EXCEPT ![c] =
                   [IdleCall EXCEPT !.pc = "prompt", !.identity = id]]
            /\ prompts' = IF prompts = "never" THEN "once" ELSE "again"
            /\ UNCHANGED <<lockFile, providerLatestVersionCache,
                           initNotificationShown, succeeded>>
       ELSE FromLockFile(c, id)
    /\ UNCHANGED <<resolverVars, compareVars, satisfiesVars, documentVars, sessionVars>>

\* The user cancels or dismisses the warning: the lookup goes on.
PromptDeclined(c) ==
    /\ call[c].pc = "prompt"
    /\ FromLockFile(c, call[c].identity)
    /\ UNCHANGED <<resolverVars, compareVars, satisfiesVars, documentVars, sessionVars>>

\* The user picks 'Run <tool> init': the init command is sent to a terminal
\* and the call waits for it under the progress notification.
PromptAccepted(c) ==
    /\ call[c].pc = "prompt"
    /\ call' = [call EXCEPT ![c].pc = "init"]
    /\ UNCHANGED <<lockFile, providerLatestVersionCache, initNotificationShown,
                   succeeded, prompts>>
    /\ UNCHANGED <<resolverVars, compareVars, satisfiesVars, documentVars, sessionVars>>

\* The init command running in the terminal writes the lock file.
InitWritesLockFile ==
    /\ \E c \in Callers : call[c].pc = "init"
    /\ lockFile.state = "missing"
    /\ lockFile' \in {f \in LockFiles : f.state = "readable"}
    /\ UNCHANGED <<providerLatestVersionCache, initNotificationShown, call,
                   succeeded, prompts>>
    /\ UNCHANGED <<resolverVars, compareVars, satisfiesVars, documentVars, sessionVars>>

\* The end of the initialization setting the module-level flag.
InitEnds_SetsFlag(c) ==
    /\ call[c].pc = "init"
    /\ call' = [call EXCEPT ![c].pc = "done", ![c].result = NoAction]
    /\ initNotificationShown' = TRUE
    /\ UNCHANGED <<lockFile, providerLatestVersionCache, succeeded, prompts>>
    /\ UNCHANGED <<resolverVars, compareVars, satisfiesVars, documentVars, sessionVars>>

\* waitForProcess returns or throws: the progress callback returns nothing
\* on every path, and that is what getResourceData returns.
InitEnds(c) ==
    /\ call[c].pc = "init"
    /\ call' = [call EXCEPT ![c].pc = "done", ![c].result = NoAction]
    /\ UNCHANGED <<lockFile, providerLatestVersionCache, initNotificationShown,
                   succeeded, prompts>>
    /\ UNCHANGED <<resolverVars, compareVars, satisfiesVars, documentVars, sessionVars>>

\* The fetch of a call in flight settles with some response; the rest of
\* getLatestProviderVersion and of getResourceData runs to the return.
FetchSettles(c, response) ==
    /\ call[c].pc = "fetching"
    /\ \E latestVersion \in {LatestFromResponse(response)} :
           /\ providerLatestVersionCache' =
                  CacheAfterFetch(providerLatestVersionCache,
                                  call[c].identity, latestVersion)
           /\ succeeded' = IF Truthy(latestVersion)
                           THEN succeeded \cup {call[c].identity}
                           ELSE succeeded
           /\ call' = [call EXCEPT ![c] =
                  [@ EXCEPT !.pc = "done",
                            !.lookup = IF Truthy(latestVersion)
                                       THEN "fetched" ELSE "failed",
                            !.latestVersion = latestVersion,
                            !.result = UrlAction(call[c].identity,
                                UrlVersion(call[c].providerVersion,
                                           latestVersion))]]
    /\ UNCHANGED <<lockFile, initNotificationShown, prompts>>
    /\ UNCHANGED <<resolverVars, compareVars, satisfiesVars, documentVars, sessionVars>>

\* The caller takes the result; it may call again.
Return(c) ==
    /\ call[c].pc = "done"
    /\ call' = [call EXCEPT ![c] = IdleCall]
    /\ UNCHANGED <<lockFile, providerLatestVersionCache, initNotificationShown,
                   succeeded, prompts>>
    /\ UNCHANGED <<resolverVars, compareVars, satisfiesVars, documentVars, sessionVars>>

InitExtension ==
    /\ SessionIdle
    /\ lockFile \in LockFiles
    /\ providerLatestVersionCache = [id \in Identities |-> Undefined]
    /\ initNotificationShown = FALSE
    /\ call = [c \in Callers |-> IdleCall]
    /\ succeeded = {}
    /\ prompts = "never"
    /\ strategy \in {Text_high, Text_low}
    /\ ResolverIdle
    /\ CompareIdle
    /\ SatisfiesIdle
    /\ DocumentIdle

NextExtension ==
    \/ \E c \in Callers, id \in Identities : GetResourceData(c, id)
    \/ \E c \in Callers : PromptDeclined(c)
    \/ \E c \in Callers : PromptAccepted(c)
    \/ InitWritesLockFile
    \/ \E c \in Callers : InitEnds(c)
    \/ \E c \in Callers, response \in Responses : FetchSettles(c, response)
    \/ \E c \in Callers : Return(c)

SpecExtension == InitExtension /\ [][NextExtension]_vars

----------------------------------------------------------------------------
(* Claims about the latest-version cache and the URL *)

\* The step in which call c's fetch settles as a failure or comes back empty.
LookupFails(c) == call[c].pc = "fetching" /\ call'[c].lookup = "failed"

\* The step in which call c starts its latest-version lookup.
LookupBegins(c) == call[c].lookup = "none" /\ call'[c].lookup # "none"

\* C8 as stated: after a lookup for an identity fails or comes back empty the
\* cache holds no entry for that identity (so the next lookup fetches).
C8_NoEntryAfterFailedLookup ==
    [][\A c \in Callers :
           LookupFails(c)
           => providerLatestVersionCache'[call[c].identity] = Undefined]_vars

\* C8 amended: a failed or empty lookup writes nothing to the cache; an entry
\* is there only when a fetch for that identity has succeeded; and a lookup
\* that starts while the cache holds no entry for its identity fetches.
C8_FailedLookupWritesNothing ==
    /\ [][\A c \in Callers :
              LookupFails(c)
              => providerLatestVersionCache' = providerLatestVersionCache]_vars
    /\ [][\A c \in Callers :
              (LookupBegins(c)
                  /\ providerLatestVersionCache[call'[c].identity] = Undefined)
              => call'[c].pc = "fetching"]_vars
    /\ [](\A id \in Identities :
              providerLatestVersionCache[id] # Undefined => id \in succeeded)

\* One call's lookup has failed, the cache holds nothing for the identity,
\* and the other call's lookup for the same identity is fetching.
C8_Witness ==
    \E c, d \in Callers :
        /\ call[c].pc = "done" /\ call[c].lookup = "failed"
        /\ call[d].pc = "fetching" /\ call[d].identity = call[c].identity
        /\ providerLatestVersionCache[call[c].identity] = Undefined

\* C9: once a lookup for an identity has succeeded, every lookup for it that
\* starts later returns the version the cache holds and issues no fetch.
C9_CachedAfterSuccess ==
    [][\A c \in Callers :
           (LookupBegins(c) /\ call'[c].identity \in succeeded)
           => /\ call'[c].lookup = "cached"
              /\ call'[c].pc = "done"
              /\ Truthy(call'[c].latestVersion)
              /\ call'[c].latestVersion =
                     providerLatestVersionCache[call'[c].identity]]_vars

C9_Witness ==
    \E c \in Callers :
        /\ call[c].pc = "done" /\ call[c].lookup = "cached"
        /\ call[c].identity \in succeeded
        /\ call[c].latestVersion = VersionText(1, 7, 0)

\* C10: the URL's version segment is 'latest' exactly when the lock file
\* gave no exact version or the lookup succeeded with the resolved version;
\* otherwise it is the resolved version; and a failed lookup still ends in a
\* URL, not an error.
C10_UrlVersionSegment ==
    \A c \in Callers :
        /\ (call[c].pc = "done" /\ call[c].result.type = "url")
           => LET noExact == \/ ~call[c].entrySeen.present
                             \/ call[c].entrySeen.version = <<>>
                  sameAsLatest ==
                      /\ call[c].lookup \in {"cached", "fetched"}
                      /\ call[c].latestVersion = call[c].providerVersion
              IN  /\ call[c].result.version = Text_latest
                     <=> (noExact \/ sameAsLatest)
                  /\ call[c].result.version # Text_latest
                     => call[c].result.version = call[c].providerVersion
        /\ call[c].lookup = "failed"
           => call[c].pc = "done" /\ call[c].result.type = "url"

\* The lookup failed and the URL carries the version resolved from the lock
\* file entry (1.7.0 locked, '>= 1.6.0' as constraints).
C10_Witness ==
    \E c \in Callers :
        /\ call[c].pc = "done" /\ call[c].lookup = "failed"
        /\ call[c].entrySeen.present
        /\ call[c].entrySeen.version = VersionText(1, 7, 0)
        /\ call[c].result.type = "url"
        /\ call[c].result.version = call[c].providerVersion

\* C20: under every interleaving of lookups the cache only gains entries.  An
\* entry is never removed; the cache changes for an identity only in the step
\* in which a fetch for that identity succeeds, and then to the version that
\* fetch returned (never to an empty or failed result); and every successful
\* fetch writes its version, so of two overlapping lookups the later write
\* is the value kept.
C20_CacheOnlyGains ==
    [][/\ \A id \in Identities :
              /\ providerLatestVersionCache[id] # Undefined
                 => providerLatestVersionCache'[id] # Undefined
              /\ providerLatestVersionCache'[id] # providerLatestVersionCache[id]
                 => \E c \in Callers :
                        /\ call[c].pc = "fetching" /\ call[c].identity = id
                        /\ call'[c].lookup = "fetched"
                        /\ Truthy(providerLatestVersionCache'[id])
                        /\ call'[c].latestVersion
                               = providerLatestVersionCache'[id]
       /\ \A c \in Callers :
              (call[c].pc = "fetching" /\ call'[c].lookup = "fetched")
              => providerLatestVersionCache'[call[c].identity]
                     = call'[c].latestVersion]_vars

\* Two overlapping lookups for one identity have both fetched, with different
\* versions; the cache holds the 1.6.0 that one of them wrote.
C20_Witness ==
    \E c, d \in Callers :
        /\ call[c].pc = "done" /\ call[c].lookup = "fetched"
        /\ call[d].pc = "done" /\ call[d].lookup = "fetched"
        /\ call[c].identity = call[d].identity
        /\ call[c].latestVersion = VersionText(1, 7, 0)
        /\ call[d].latestVersion = VersionText(1, 6, 0)
        /\ providerLatestVersionCache[call[c].identity] = VersionText(1, 6, 0)

----------------------------------------------------------------------------
(* satisfiesConstraint *)

startsWith(s, prefix) ==
    Len(s) >= Len(prefix) /\ SubSeq(s, 1, Len(prefix)) = prefix

\* s.slice(n)
slice(s, n) == SubSeq(s, n + 1, Len(s))

\* /^\d+\.\d+\.\d+$/.test(s)
IsExactVersion(s) == LET m == CoreAt(s, 1) IN m.ok /\ m.e3 = Len(s) + 1

Op_eq == <<"=">>
Op_ge == <<">", "=">>
Op_gt == <<">">>
Op_le == <<"<", "=">>
Op_lt == <<"<">>
Op_pessimistic == <<"~", ">">>

\* The pessimistic clause: at least the target, with its major and minor.
satisfiesPessimistic(parsedVersion, targetVersion) ==
    /\ targetVersion # NoVersion
    /\ compareVersions(parsedVersion, targetVersion) >= 0
    /\ parsedVersion.major = targetVersion.major
    /\ parsedVersion.minor = targetVersion.minor

\* The branches of satisfiesConstraint on the trimmed clause c; the target
\* of a comparison is what follows the operator, parsed as it stands.
satisfiesTrimmed(ver, parsedVersion, c, target1, target2) ==
    IF startsWith(c, Op_eq) \/ IsExactVersion(c)
    THEN ver = (IF startsWith(c, Op_eq) THEN slice(c, 1) ELSE c)
    ELSE IF startsWith(c, Op_ge)
    THEN target2 # NoVersion /\ compareVersions(parsedVersion, target2) >= 0
    ELSE IF startsWith(c, Op_gt) /\ ~startsWith(c, Op_ge)
    THEN target1 # NoVersion /\ compareVersions(parsedVersion, target1) > 0
    ELSE IF startsWith(c, Op_le)
    THEN target2 # NoVersion /\ compareVersions(parsedVersion, target2) <= 0
    ELSE IF startsWith(c, Op_lt) /\ ~startsWith(c, Op_le)
    THEN target1 # NoVersion /\ compareVersions(parsedVersion, target1) < 0
    ELSE IF startsWith(c, Op_pessimistic)
    THEN satisfiesPessimistic(parsedVersion, target2)
    ELSE ver = c

satisfiesParsed(ver, parsedVersion, c) ==
    IF parsedVersion = NoVersion THEN FALSE
    ELSE satisfiesTrimmed(ver, parsedVersion, c,
                          parseSemanticVersion(slice(c, 1)),
                          parseSemanticVersion(slice(c, 2)))

satisfiesConstraint(ver, con) ==
    satisfiesParsed(ver, parseSemanticVersion(ver), trim(con))

\* Clauses: each operator (and none), followed by a version with and without
\* a space between them.
Operators == {<<>>, Op_eq, Op_ge, Op_gt, Op_le, Op_lt, Op_pessimistic}
Spacings == {<<>>, <<" ">>}
ClauseInputs ==
    {op \o sp \o w : op \in Operators, sp \in Spacings, w \in VersionInputs}

InitSatisfies ==
    /\ SessionIdle
    /\ candidate \in VersionInputs
    /\ constraintArg \in ClauseInputs
    /\ satisfied = [called |-> FALSE]
    /\ ResolverIdle
    /\ strategy = Text_high
    /\ CompareIdle
    /\ ExtensionIdle
    /\ DocumentIdle

CallSatisfiesConstraint ==
    /\ ~satisfied.called
    /\ satisfied' = [called |-> TRUE,
                     result |-> satisfiesConstraint(candidate, constraintArg)]
    /\ UNCHANGED <<candidate, constraintArg>>
    /\ UNCHANGED <<resolverVars, compareVars, extensionVars, documentVars, sessionVars>>

NextSatisfies == CallSatisfiesConstraint

SpecSatisfies == InitSatisfies /\ [][NextSatisfies]_vars

\* C19: for valid versions v and w and each of >=, >, <= and <, the clause
\* made of the operator and w, with or without a space between them, is
\* satisfied by v exactly when v stands in that relation to w under
\* compareVersions.
C19_ComparisonClauses ==
    satisfied.called
    => \A sp \in Spacings, w \in VersionInputs :
           LET order == compareVersions(parseSemanticVersion(candidate),
                                        parseSemanticVersion(w))
           IN  /\ constraintArg = Op_ge \o sp \o w
                  => (satisfied.result <=> order >= 0)
               /\ constraintArg = Op_gt \o sp \o w
                  => (satisfied.result <=> order > 0)
               /\ constraintArg = Op_le \o sp \o w
                  => (satisfied.result <=> order <= 0)
               /\ constraintArg = Op_lt \o sp \o w
                  => (satisfied.result <=> order < 0)

----------------------------------------------------------------------------
(* Text documents: the declaration patterns and the enclosing block *)

Lower == {"a", "b", "c", "d", "e", "f", "g", "h", "i", "j", "k", "l", "m",
          "n", "o", "p", "q", "r", "s", "t", "u", "v", "w", "x", "y", "z"}
Quote == "\""
ProviderChar == Letter \cup {"-"}           \* [a-zA-Z-]
NameChar == Lower \cup Digit \cup {"_"}     \* [a-z0-9_]
ModuleNameChar == Letter \cup Digit \cup {"_", "-"}   \* [a-zA-Z0-9_-]

Str_data == <<"d", "a", "t", "a">>
Str_resource == <<"r", "e", "s", "o", "u", "r", "c", "e">>
Str_module == <<"m", "o", "d", "u", "l", "e">>
Str_source == <<"s", "o", "u", "r", "c", "e">>

\* document.lineAt(n).text, for n from 0
lineAt(doc, n) == doc[n + 1]

\* A piece of a pattern matched at index i of s: the index just past it, or
\* 0 when it does not match there (or when the piece before it failed).
Lit(s, i, ch) == IF i > 0 /\ i <= Len(s) /\ s[i] = ch THEN i + 1 ELSE 0
Some(s, i, cls) == IF i > 0 /\ RunEnd(s, i, cls) > i THEN RunEnd(s, i, cls)
                   ELSE 0
Word(s, i, w) ==
    IF i > 0 /\ i + Len(w) - 1 <= Len(s) /\ SubSeq(s, i, i + Len(w) - 1) = w
    THEN i + Len(w) ELSE 0

\* \s+"([a-zA-Z-]+)_([a-z0-9_]+)"\s+"([a-z0-9_]+)" from index i.  Every
\* class is followed by a character outside it, so the greedy runs are the
\* only way to match.
ResourceTail(s, i) ==
    Lit(s, Some(s, Lit(s, Some(s, Lit(s, Some(s, Lit(s, Some(s, Lit(s,
        Some(s, i, Whitespace), Quote), ProviderChar), "_"), NameChar),
        Quote), Whitespace), Quote), NameChar), Quote)

\* RESOURCE_REGEX.exec(line) finds a match.
RESOURCE_REGEX(line) ==
    \E p \in 1..Len(line) :
        \/ ResourceTail(line, Word(line, p, Str_data)) > 0
        \/ ResourceTail(line, Word(line, p, Str_resource)) > 0

\* MODULE_REGEX.exec(line) finds a match.
MODULE_REGEX(line) ==
    \E p \in 1..Len(line) :
        Lit(line, Some(line, Lit(line, Some(line, Word(line, p, Str_module),
            Whitespace), Quote), ModuleNameChar), Quote) > 0

\* What findResourceContext returns: null, or the declaration's line.
NoContext == [found |-> FALSE]
Context(lineNum) == [found |-> TRUE, resourceStartLine |-> lineNum]

\* The braces of one line counted from character i on.  closed: the count
\* came back to zero on a line before the cursor's (the function returns).
RECURSIVE countBraces(_, _, _, _, _)
countBraces(checkText, i, braceCount, foundOpenBrace, beforeCursorLine) ==
    IF i > Len(checkText)
    THEN [braceCount |-> braceCount, foundOpenBrace |-> foundOpenBrace,
          closed |-> FALSE]
    ELSE IF checkText[i] = "{"
    THEN countBraces(checkText, i + 1, braceCount + 1, TRUE, beforeCursorLine)
    ELSE IF checkText[i] = "}"
    THEN IF foundOpenBrace /\ braceCount - 1 = 0 /\ beforeCursorLine
         THEN [braceCount |-> 0, foundOpenBrace |-> TRUE, closed |-> TRUE]
         ELSE countBraces(checkText, i + 1, braceCount - 1, foundOpenBrace,
                          beforeCursorLine)
    ELSE countBraces(checkText, i + 1, braceCount, foundOpenBrace,
                     beforeCursorLine)

\* The inner loop from the declaration line lineNum to the cursor line:
\* "null" (return null), "context" (return the declaration), or "next"
\* (the loop ended: the outer loop goes on to the line above).
RECURSIVE checkLines(_, _, _, _, _, _)
afterLine(doc, pos, lineNum, checkLine, counted) ==
    IF counted.closed THEN [kind |-> "null"]
    ELSE IF /\ checkLine = pos.line
            /\ counted.foundOpenBrace /\ counted.braceCount > 0
    THEN [kind |-> "context"]
    ELSE checkLines(doc, pos, lineNum, checkLine + 1, counted.braceCount,
                    counted.foundOpenBrace)
checkLines(doc, pos, lineNum, checkLine, braceCount, foundOpenBrace) ==
    IF checkLine <= pos.line /\ checkLine < Len(doc)
    THEN afterLine(doc, pos, lineNum, checkLine,
                   countBraces(lineAt(doc, checkLine), 1, braceCount,
                               foundOpenBrace, checkLine < pos.line))
    ELSE [kind |-> "next"]

\* The outer loop, backwards from the cursor line.
RECURSIVE scanBackwards(_, _, _)
afterCandidate(doc, pos, lineNum, checked) ==
    IF checked.kind = "null" THEN NoContext
    ELSE IF checked.kind = "context" THEN Context(lineNum)
    ELSE scanBackwards(doc, pos, lineNum - 1)
scanBackwards(doc, pos, lineNum) ==
    IF lineNum < 0 THEN NoContext
    ELSE IF RESOURCE_REGEX(lineAt(doc, lineNum))
    THEN afterCandidate(doc, pos, lineNum,
                        checkLines(doc, pos, lineNum, lineNum, 0, FALSE))
    ELSE scanBackwards(doc, pos, lineNum - 1)

findResourceContext(doc, pos) == scanBackwards(doc, pos, pos.line)

----------------------------------------------------------------------------
(* The variable under the cursor and its hash fragment *)

\* VARIABLE_REGEX, /^\s*([a-z0-9_]+)\s*=\s*(.*)$/: the start and the end of
\* the name, or ok = FALSE.
VariableName(line, from, to) ==
    IF to > from /\ Lit(line, RunEnd(line, to, Whitespace), "=") > 0
       /\ \A k \in 1..Len(line) : line[k] \notin LineTerminator
    THEN [ok |-> TRUE, name |-> SubSeq(line, from, to - 1)]
    ELSE [ok |-> FALSE]
VARIABLE_REGEX(line) ==
    VariableName(line, RunEnd(line, 1, Whitespace),
                 RunEnd(line, RunEnd(line, 1, Whitespace), NameChar))

\* s.indexOf(sub) for a sub that occurs in s, counted from 0
indexOf(s, sub) ==
    (CHOOSE i \in 1..Len(s) :
         /\ Word(s, i, sub) > 0
         /\ \A j \in 1..(i - 1) : Word(s, j, sub) = 0) - 1

\* getVariableAtPosition: the name when the cursor is within it, else null.
variableAtCursor(line, pos, match, assignmentStart) ==
    IF /\ pos.character >= assignmentStart
       /\ pos.character <= assignmentStart + Len(match.name)
    THEN match.name ELSE Null
variableOfMatch(line, pos, match) ==
    IF ~match.ok THEN Null
    ELSE variableAtCursor(line, pos, match, indexOf(line, match.name))
getVariableAtPosition(line, pos) ==
    variableOfMatch(line, pos, VARIABLE_REGEX(line))

\* One character of generateVariableHash's count.
nestChar(char, nestingLevel, foundResourceBrace) ==
    IF char = "{"
    THEN [nestingLevel |-> IF foundResourceBrace THEN nestingLevel + 1
                           ELSE nestingLevel,
          foundResourceBrace |-> TRUE]
    ELSE IF char = "}"
    THEN [nestingLevel |-> IF foundResourceBrace /\ nestingLevel > 0
                           THEN nestingLevel - 1 ELSE nestingLevel,
          foundResourceBrace |-> foundResourceBrace]
    ELSE [nestingLevel |-> nestingLevel,
          foundResourceBrace |-> foundResourceBrace]

\* The characters of line lineNum from charIndex on; on the cursor's line the
\* count stops after the character at the cursor's column.
RECURSIVE nestLine(_, _, _, _, _)
afterChar(line, charIndex, lineNum, pos, counted) ==
    IF lineNum = pos.line /\ charIndex >= pos.character THEN counted
    ELSE nestLine(line, charIndex + 1, lineNum, pos, counted)
nestLine(line, charIndex, lineNum, pos, counted) ==
    IF charIndex >= Len(line) THEN counted
    ELSE afterChar(line, charIndex, lineNum, pos,
                   nestChar(line[charIndex + 1], counted.nestingLevel,
                            counted.foundResourceBrace))

\* The lines from the declaration to the cursor's.
RECURSIVE nestLines(_, _, _, _)
nestLines(doc, pos, lineNum, counted) ==
    IF lineNum > pos.line THEN counted.nestingLevel
    ELSE nestLines(doc, pos, lineNum + 1,
                   nestLine(lineAt(doc, lineNum), 0, lineNum, pos, counted))

\* let nestingLevel = 1 and the loops of generateVariableHash
nestingLevel(doc, pos, resourceContext) ==
    nestLines(doc, pos, resourceContext.resourceStartLine,
              [nestingLevel |-> 1, foundResourceBrace |-> FALSE])

hashOfLevel(variableName, level) ==
    IF level > 0 THEN variableName \o <<"-">> \o Decimal(level)
    ELSE variableName

hashInContext(doc, pos, variableName, resourceContext) ==
    IF ~resourceContext.found THEN variableName
    ELSE hashOfLevel(variableName, nestingLevel(doc, pos, resourceContext))

generateVariableHash(doc, pos, variableName) ==
    hashInContext(doc, pos, variableName, findResourceContext(doc, pos))

----------------------------------------------------------------------------
(* The document functions called on every document and cursor *)

MaxLines == 4

\* Lines of a resource file: a declaration with its opening brace, a closing
\* brace, an assignment, the opening of a nested block, and a line that
\* closes one block and opens another.
Line_declaration == <<"d", "a", "t", "a", " ", "\"", "a", "_", "b", "\"", " ", "\"", "c", "\"", " ", "{">>
Line_close == <<"}">>
Line_assignment == <<"x", " ", "=", " ", "1">>
Line_block == <<"b", " ", "{">>
Line_closeOpen == <<"}", " ", "b", " ", "{">>
ResourceLines ==
    {Line_declaration, Line_close, Line_assignment, Line_block,
     Line_closeOpen}

Documents(lines, n) == UNION {[1..k -> lines] : k \in 1..n}
Positions(doc) ==
    UNION {{[line |-> l, character |-> ch] :
                ch \in 0..Len(lineAt(doc, l))} : l \in 0..(Len(doc) - 1)}

InitContext ==
    /\ SessionIdle
    /\ document \in Documents(ResourceLines, MaxLines)
    /\ position \in Positions(document)
    /\ mainFile = "none"
    /\ out = NoCall
    /\ ResolverIdle
    /\ strategy = Text_high
    /\ CompareIdle
    /\ ExtensionIdle
    /\ SatisfiesIdle

CallFindResourceContext ==
    /\ out = NoCall
    /\ out' = [op |-> "findResourceContext",
               context |-> findResourceContext(document, position)]
    /\ UNCHANGED <<document, position, mainFile>>
    /\ UNCHANGED <<resolverVars, compareVars, extensionVars, satisfiesVars, sessionVars>>

\* getVariableData up to the hash: the variable under the cursor, its
\* resource context, and the hash fragment when there are both.
GetVariableData ==
    /\ out = NoCall
    /\ \E variableName \in
           {getVariableAtPosition(lineAt(document, position.line), position)} :
       \E resourceContext \in {findResourceContext(document, position)} :
           out' = [op |-> "getVariableData",
                   variableName |-> variableName,
                   context |-> resourceContext,
                   hash |-> IF variableName # Null /\ resourceContext.found
                            THEN generateVariableHash(document, position,
                                                      variableName)
                            ELSE Undefined]
    /\ UNCHANGED <<document, position, mainFile>>
    /\ UNCHANGED <<resolverVars, compareVars, extensionVars, satisfiesVars, sessionVars>>

NextContext == CallFindResourceContext \/ GetVariableData

SpecContext == InitContext /\ [][NextContext]_vars

----------------------------------------------------------------------------
(* Claims about the enclosing block and the hash fragment *)

\* The text from the start of line n up to the position pos.
RECURSIVE LinesFrom(_, _, _)
LinesFrom(doc, n, to) ==
    IF n >= to THEN <<>> ELSE lineAt(doc, n) \o LinesFrom(doc, n + 1, to)
TextBefore(doc, n, pos) ==
    LinesFrom(doc, n, pos.line)
        \o SubSeq(lineAt(doc, pos.line), 1, pos.character)

\* Open braces less close braces in a text.
RECURSIVE Balance(_)
Balance(text) ==
    IF text = <<>> THEN 0
    ELSE Balance(Tail(text))
         + (IF Head(text) = "{" THEN 1 ELSE IF Head(text) = "}" THEN -1 ELSE 0)

\* The first block opened in the text is closed within it.
ClosedWithin(text) ==
    \E k \in 1..Len(text) :
        /\ text[k] = "}"
        /\ \E j \in 1..k : text[j] = "{"
        /\ Balance(SubSeq(text, 1, k)) = 0

\* The block of the declaration on line n is open at the position pos.
OpenAt(doc, n, pos) ==
    /\ ~ClosedWithin(TextBefore(doc, n, pos))
    /\ Balance(TextBefore(doc, n, pos)) > 0

DeclarationLines(doc, upTo) ==
    {n \in 0..upTo : RESOURCE_REGEX(lineAt(doc, n))}
StartOfLine(l) == [line |-> l, character |-> 0]
ContextCalled == out.op = "findResourceContext"

\* C11: when the declaration nearest above the cursor has its block closed
\* on a line before the cursor's, the candidate is rejected and the scan goes
\* on backwards: the nearest earlier declaration whose block is still open at
\* the cursor is returned.
C11_RejectedCandidateContinues ==
    ContextCalled
    => \A n, e \in DeclarationLines(document, position.line) :
           (/\ e < n
            /\ \A m \in DeclarationLines(document, position.line) : m <= n
            /\ ClosedWithin(TextBefore(document, n,
                                       StartOfLine(position.line)))
            /\ OpenAt(document, e, position)
            /\ \A m \in DeclarationLines(document, position.line) :
                   (e < m /\ m < n) => ~OpenAt(document, m, position))
           => out.context = Context(e)

\* C12: when the only declaration line above the cursor has its block closed
\* before the cursor, on an earlier line or earlier on the cursor's line, no
\* enclosing block is returned, whatever is opened after the closing brace.
C12_NoneAfterClosingBrace ==
    ContextCalled
    => \A n \in DeclarationLines(document, position.line) :
           (/\ DeclarationLines(document, position.line) = {n}
            /\ n < position.line
            /\ ClosedWithin(TextBefore(document, n, position)))
           => out.context = NoContext

\* C13: a declaration is returned only if its opening brace comes before the
\* cursor and the brace count at the cursor is above zero; so a cursor on the
\* declaration line before its opening brace is not inside the block.
C13_OpenBraceSeenBeforeCursor ==
    (ContextCalled /\ out.context.found)
    => /\ \E k \in 1..Len(TextBefore(document, out.context.resourceStartLine,
                                     position)) :
              TextBefore(document, out.context.resourceStartLine,
                         position)[k] = "{"
       /\ Balance(TextBefore(document, out.context.resourceStartLine,
                             position)) > 0

\* The blocks open at the cursor inside the block of the declaration the
\* variable belongs to.
HashGiven == out.op = "getVariableData" /\ out.hash # Undefined
NestedBlocks ==
    Balance(TextBefore(document, out.context.resourceStartLine, position)) - 1

\* C14: for an assignment directly in the resource's block, with no nested
\* block open at the cursor, the hash fragment is the bare variable name.
C14_TopLevelHashIsName ==
    (HashGiven /\ OpenAt(document, out.context.resourceStartLine, position)
        /\ NestedBlocks = 0)
    => out.hash = out.variableName

\* C15: for a variable inside k >= 1 nested blocks still open at the cursor
\* the hash fragment is the name, a hyphen and k.
C15_NestedHashIsNameAndDepth ==
    (HashGiven /\ OpenAt(document, out.context.resourceStartLine, position)
        /\ NestedBlocks >= 1)
    => out.hash = out.variableName \o <<"-">> \o Decimal(NestedBlocks)

----------------------------------------------------------------------------
(* Modules: getAttribute and getModuleData *)

\* /([a-z0-9_]+)\s+=\s+(.*)/ with the name starting at index p: the index
\* where the value (.*) starts, or 0.
AttributeAt(line, p) ==
    Some(line, Lit(line, Some(line, Some(line, p, NameChar), Whitespace),
                   "="), Whitespace)

\* The leftmost match: its name and its value, the rest of the line.
AttributeMatch(line) ==
    IF \E p \in 1..Len(line) : AttributeAt(line, p) > 0
    THEN LET p == CHOOSE q \in 1..Len(line) :
                      /\ AttributeAt(line, q) > 0
                      /\ \A r \in 1..(q - 1) : AttributeAt(line, r) = 0
         IN  [ok |-> TRUE,
              name |-> SubSeq(line, p, RunEnd(line, p, NameChar) - 1),
              value |-> SubSeq(line, AttributeAt(line, p), Len(line))]
    ELSE [ok |-> FALSE]

\* match[2], without its first and last character when it starts with '"'
attributeValue(value) ==
    IF startsWith(value, <<Quote>>) THEN SubSeq(value, 2, Len(value) - 1)
    ELSE value

\* getAttribute with position.line = n at the loop's test.  The line read
\* is n + 1; "outside" when the document has no such line (lineAt is then
\* called with an index that is not a line of the document).
RECURSIVE getAttributeFrom(_, _, _)
attributeOnLine(doc, n, attribute, line, match) ==
    IF startsWith(line, <<"}">>) THEN [kind |-> "undefined"]
    ELSE IF match.ok /\ match.name = attribute
    THEN [kind |-> "value", value |-> attributeValue(match.value)]
    ELSE getAttributeFrom(doc, n, attribute)
getAttributeFrom(doc, n, attribute) ==
    IF ~(n < Len(doc)) THEN [kind |-> "undefined"]
    ELSE IF n + 1 > Len(doc) - 1 THEN [kind |-> "outside", line |-> n + 1]
    ELSE attributeOnLine(doc, n + 1, attribute, lineAt(doc, n + 1),
                         AttributeMatch(lineAt(doc, n + 1)))

getAttribute(doc, pos, attribute) == getAttributeFrom(doc, pos.line, attribute)

\* s.split(w) for a separator w of one or more characters
RECURSIVE splitBy(_, _)
splitBy(s, w) ==
    IF \E i \in 1..Len(s) : Word(s, i, w) > 0
    THEN LET i == CHOOSE k \in 1..Len(s) :
                      Word(s, k, w) > 0 /\ \A j \in 1..(k - 1) : Word(s, j, w) = 0
         IN  <<SubSeq(s, 1, i - 1)>> \o splitBy(SubSeq(s, i + Len(w), Len(s)), w)
    ELSE <<s>>

\* s.replace(w, by): the first occurrence only
replace(s, w, by) ==
    IF \E i \in 1..Len(s) : Word(s, i, w) > 0
    THEN LET i == CHOOSE k \in 1..Len(s) :
                      Word(s, k, w) > 0 /\ \A j \in 1..(k - 1) : Word(s, j, w) = 0
         IN  SubSeq(s, 1, i - 1) \o by \o SubSeq(s, i + Len(w), Len(s))
    ELSE s

Str_undefined == <<"u", "n", "d", "e", "f", "i", "n", "e", "d">>
Str_privateHost == <<"a", "p", "p", ".", "t", "e", "r", "r", "a", "f", "o", "r", "m", ".", "i", "o">>
Str_privateUrl == <<"h", "t", "t", "p", "s", ":", "/", "/", "a", "p", "p", ".", "t", "e", "r", "r", "a", "f", "o", "r", "m", ".", "i", "o", "/", "a", "p", "p", "/">>
Str_privateModules == <<"/", "r", "e", "g", "i", "s", "t", "r", "y", "/", "m", "o", "d", "u", "l", "e", "s", "/", "p", "r", "i", "v", "a", "t", "e", "/">>
Str_registryUrl == <<"h", "t", "t", "p", "s", ":", "/", "/", "r", "e", "g", "i", "s", "t", "r", "y", ".", "t", "e", "r", "r", "a", "f", "o", "r", "m", ".", "i", "o", "/", "m", "o", "d", "u", "l", "e", "s", "/">>
Str_latest == <<"/", "l", "a", "t", "e", "s", "t">>
Str_modules == <<"m", "o", "d", "u", "l", "e", "s">>
Str_submodules == <<"s", "u", "b", "m", "o", "d", "u", "l", "e", "s">>
Slash == <<"/">>
DocumentDirectory == <<"/", "w">>

\* An element of a destructured array in a template literal: 'undefined'
\* where the array is too short.
Part(parts, k) == IF k <= Len(parts) THEN parts[k] ELSE Str_undefined

UrlOf(url) == [type |-> "url", url |-> url]
NavigateTo(filePath) == [type |-> "navigate", filePath |-> filePath]
Thrown(cause) == [type |-> "error", cause |-> cause]

privateUrl(parts) ==
    Str_privateUrl \o Part(parts, 2) \o Str_privateModules \o Part(parts, 2)
        \o Slash \o Part(parts, 3) \o Slash \o Part(parts, 4)

submoduleUrl(parts) ==
    Str_registryUrl \o Part(parts, 1) \o Str_latest \o Slash
        \o replace(Part(parts, 2), Str_modules, Str_submodules)

\* path.join(document.uri.path, '..', source) for a source './<rest>'
pathJoin(directory, source) ==
    IF startsWith(source, <<".", "/">>) THEN directory \o slice(source, 1)
    ELSE directory \o Slash \o source

\* The local branch: findMainFileInDir finds a main file, finds none, or
\* its readdir rejects because the directory is not there.
localAction(modulePath, found) ==
    IF found = "noDirectory" THEN Thrown("readdir")
    ELSE IF found = "none" THEN NoAction
    ELSE NavigateTo(modulePath \o Slash \o <<"main.tf">>)

\* The branches with every path starting with '.' sent to the registry.
moduleAction_AbsoluteOnly(source, found) ==
    IF startsWith(source, Str_privateHost)
    THEN UrlOf(privateUrl(split(source, "/")))
    ELSE IF startsWith(source, Slash)
    THEN localAction(source, found)
    ELSE IF \E i \in 1..Len(source) : Word(source, i, <<"/", "/">>) > 0
    THEN UrlOf(submoduleUrl(splitBy(source, <<"/", "/">>)))
    ELSE UrlOf(Str_registryUrl \o source \o Str_latest)

\* The branches of getModuleData on a source that is not empty.
moduleAction(source, found) ==
    IF startsWith(source, Str_privateHost)
    THEN UrlOf(privateUrl(split(source, "/")))
    ELSE IF startsWith(source, <<".">>) \/ startsWith(source, Slash)
    THEN localAction(IF startsWith(source, Slash) THEN source
                     ELSE pathJoin(DocumentDirectory, source), found)
    ELSE IF \E i \in 1..Len(source) : Word(source, i, <<"/", "/">>) > 0
    THEN UrlOf(submoduleUrl(splitBy(source, <<"/", "/">>)))
    ELSE UrlOf(Str_registryUrl \o source \o Str_latest)

moduleOfSource(source, found) ==
    IF source.kind = "outside" THEN Thrown("lineAt")
    ELSE IF source.kind = "undefined" THEN NoAction
    ELSE IF source.value = <<>> THEN NoAction
    ELSE moduleAction(source.value, found)

getModuleData(doc, pos, found) ==
    IF ~MODULE_REGEX(lineAt(doc, pos.line)) THEN NoAction
    ELSE moduleOfSource(getAttribute(doc, pos, Str_source), found)

\* checkForMissingLockFile: the line of every diagnostic pushed, in order.
RECURSIVE checkLinesFrom(_, _)
checkLinesFrom(lines, i) ==
    IF i >= Len(lines) THEN <<>>
    ELSE (IF RESOURCE_REGEX(lines[i + 1]) THEN <<i>> ELSE <<>>)
         \o (IF MODULE_REGEX(lines[i + 1]) THEN <<i>> ELSE <<>>)
         \o checkLinesFrom(lines, i + 1)
checkForMissingLockFile(doc) == checkLinesFrom(doc, 0)

----------------------------------------------------------------------------
(* The module functions called on every document and cursor line *)

MaxModuleLines == 3

\* Lines of a module file: a declaration, one that carries a comment naming
\* a data source, a closing brace, an assignment, and source attributes of
\* every form.
Line_module == <<"m", "o", "d", "u", "l", "e", " ", "\"", "m", "\"", " ", "{">>
Line_moduleComment == <<"m", "o", "d", "u", "l", "e", " ", "\"", "m", "\"", " ", "{", " ", "#", " ", "d", "a", "t", "a", " ", "\"", "a", "_", "b", "\"", " ", "\"", "c", "\"">>
Line_sourceRelative == <<"s", "o", "u", "r", "c", "e", " ", "=", " ", "\"", ".", "/", "m", "\"">>
Line_sourceAbsolute == <<"s", "o", "u", "r", "c", "e", " ", "=", " ", "\"", "/", "m", "\"">>
Line_sourcePrivate == <<"s", "o", "u", "r", "c", "e", " ", "=", " ", "\"", "a", "p", "p", ".", "t", "e", "r", "r", "a", "f", "o", "r", "m", ".", "i", "o", "/", "o", "/", "n", "/", "p", "\"">>
Line_sourceRegistry == <<"s", "o", "u", "r", "c", "e", " ", "=", " ", "\"", "a", "/", "b", "/", "c", "\"">>
Line_sourceSubmodule == <<"s", "o", "u", "r", "c", "e", " ", "=", " ", "\"", "a", "/", "b", "/", "c", "/", "/", "m", "o", "d", "u", "l", "e", "s", "/", "d", "\"">>
Line_sourceEmpty == <<"s", "o", "u", "r", "c", "e", " ", "=", " ", "\"", "\"">>
ModuleLines ==
    {Line_module, Line_moduleComment, Line_close, Line_assignment,
     Line_sourceRelative, Line_sourceAbsolute, Line_sourcePrivate,
     Line_sourceRegistry, Line_sourceSubmodule, Line_sourceEmpty}

InitModule ==
    /\ SessionIdle
    /\ document \in Documents(ModuleLines, MaxModuleLines)
    /\ position \in {StartOfLine(l) : l \in 0..(Len(document) - 1)}
    /\ mainFile \in {"found", "none", "noDirectory"}
    /\ out = NoCall
    /\ ResolverIdle
    /\ strategy = Text_high
    /\ CompareIdle
    /\ ExtensionIdle
    /\ SatisfiesIdle

GetModuleData ==
    /\ out = NoCall
    /\ out' = [op |-> "getModuleData",
               source |-> IF MODULE_REGEX(lineAt(document, position.line))
                          THEN getAttribute(document, position, Str_source)
                          ELSE [kind |-> "not read"],
               result |-> getModuleData(document, position, mainFile)]
    /\ UNCHANGED <<document, position, mainFile>>
    /\ UNCHANGED <<resolverVars, compareVars, extensionVars, satisfiesVars, sessionVars>>

\* The document is opened or saved while there is no lock file.
CheckForMissingLockFile ==
    /\ out = NoCall
    /\ lockFile.state = "missing"
    /\ out' = [op |-> "checkForMissingLockFile",
               diagnostics |-> checkForMissingLockFile(document)]
    /\ UNCHANGED <<document, position, mainFile>>
    /\ UNCHANGED <<resolverVars, compareVars, extensionVars, satisfiesVars, sessionVars>>

NextModule == GetModuleData \/ CheckForMissingLockFile

SpecModule == InitModule /\ [][NextModule]_vars

----------------------------------------------------------------------------
(* Claims about line patterns and modules *)

\* How many diagnostics a line received.
DiagnosticsOn(diagnostics, n) ==
    Cardinality({k \in 1..Len(diagnostics) : diagnostics[k] = n})

\* C16: on every line at most one of the resource pattern and the module
\* pattern matches, so a line is never classified as both: the pattern tried
\* first does not matter, and a line gets at most one diagnostic.
C16_PatternsDisjoint ==
    out.op = "checkForMissingLockFile"
    => \A n \in 0..(Len(document) - 1) :
           /\ ~(RESOURCE_REGEX(lineAt(document, n))
                    /\ MODULE_REGEX(lineAt(document, n)))
           /\ DiagnosticsOn(out.diagnostics, n) <= 1

ModuleCalled == out.op = "getModuleData"

\* C17: whatever the document and the cursor line, resolving a module ends
\* with a result or with none, never with an error of reading the text: no
\* line outside 0..lineCount-1 is read.
C17_NoReadOutsideDocument ==
    ModuleCalled
    => /\ out.source.kind # "outside"
       /\ ~(out.result.type = "error" /\ out.result.cause = "lineAt")

\* The three forms of a module source.
LocalForm(source) == startsWith(source, <<".">>) \/ startsWith(source, Slash)
PrivateForm(source) == startsWith(source, Str_privateHost)
PublicForm(source) == ~LocalForm(source) /\ ~PrivateForm(source)

\* C18: a module source has exactly one of the three forms; a navigate
\* result is produced only for the local form and a URL only for the two
\* registry forms, the private registry's for the private form and the
\* public registry's for the public form.
C18_SourceForms ==
    (ModuleCalled /\ out.source.kind = "value")
    => /\ Cardinality({f \in {"local", "private", "public"} :
              \/ f = "local" /\ LocalForm(out.source.value)
              \/ f = "private" /\ PrivateForm(out.source.value)
              \/ f = "public" /\ PublicForm(out.source.value)}) = 1
       /\ out.result.type = "navigate" => LocalForm(out.source.value)
       /\ out.result.type = "url"
          => /\ ~LocalForm(out.source.value)
             /\ PrivateForm(out.source.value)
                => startsWith(out.result.url, Str_privateUrl)
             /\ PublicForm(out.source.value)
                => startsWith(out.result.url, Str_registryUrl)

\* A module whose source is a relative path has been resolved to the main
\* file found in that directory.
C18_Witness ==
    /\ ModuleCalled /\ out.source.kind = "value"
    /\ out.source.value = <<".", "/", "m">>
    /\ out.result = NavigateTo(<<"/", "w", "/", "m", "/">> \o <<"main.tf">>)

----------------------------------------------------------------------------
(* Claims about the prompt, the resolver's range and the lock file fallback *)

\* C22: in one session the 'No .terraform.lock.hcl file found' warning is
\* shown at most once, however the getResourceData calls overlap and
\* whatever the user answers.
C22_PromptAtMostOnce == prompts # "again"

\* C26: the resolver returns the locked version or a version literal that
\* occurs in the constraint expression, and nothing else.
C26_ResultFromInputs ==
    resolvedOut # NotCalled
    => \/ resolvedOut = lockFileVersion
       \/ /\ constraints # Undefined
          /\ IsVersionLiteral(resolvedOut)
          /\ \E i \in 1..Len(constraints) :
                 Word(constraints, i, resolvedOut) > 0

\* The resolver has returned the literal of the constraints, which is not
\* the locked version.
C26_Witness ==
    /\ lockFileVersion = VersionText(1, 2, 3)
    /\ constraints = <<"=", " ">> \o VersionText(1, 6, 0)
    /\ resolvedOut = VersionText(1, 6, 0)

NoExactVersion(c) ==
    ~call[c].entrySeen.present \/ call[c].entrySeen.version = <<>>
LockFileRead(c) == call[c].entrySeen # IdleCall.entrySeen
LatestUrl(c) ==
    /\ call[c].result.type = "url"
    /\ call[c].result.version = Text_latest
    /\ call[c].providerVersion = Text_latest
    /\ call[c].lookup = "none"

----------------------------------------------------------------------------
(* runTerraformInit and waitForProcess *)

\* Text is a sequence of characters as before.  A run of characters that no
\* operation looks inside (the header, the messages) is one element.
Newline == "\n"
Header == <<"Running terraform init -input=false -no-color in a">>
WaitingPrefix == "waiting for process to finish... ("
TerraformSuccess == "Terraform has been successfully initialized"
OpenTofuSuccess == "OpenTofu has been successfully initialized"
ErrorMessage == <<"Error: Initialization did not complete successfully">>
FinishedMessage == <<"Finished initializing">>
AnsiCode == "ESC[0m"

maxMilliseconds == 30000

\* `waiting for process to finish... (${currentMilliseconds / 1000}s)`
waitingMessage(ms) == <<WaitingPrefix>> \o Decimal(ms \div 1000) \o <<"s", ")">>

\* text.replace(/\x1b\[[0-9;]*m/g, '')
stripAnsiCodes(text) == SelectSeq(text, LAMBDA ch : ch # AnsiCode)

\* outputWindow.appendLine(value): the value and a line feed
appendLine(channel, value) == channel \o value \o <<Newline>>

\* lines.filter(line => line.length > 0)
nonEmpty(list) == SelectSeq(list, LAMBDA l : Len(l) > 0)

\* The value handed to outputWindow.replace: the header and the lines read,
\* with no line feed after the last of them.
rewritten(list) == Header \o <<Newline>> \o join(nonEmpty(list), <<Newline>>)

\* The locals of waitForProcess and the channel it writes to.
WaitState(list, ms, flag, channel) ==
    [lines |-> list, currentMilliseconds |-> ms, replaceLine |-> flag,
     channel |-> channel]

\* The body of `for (const line of diff)` for one line.  The two branches on
\* isErrorStart && lastLineWasErrorBlock call the channel in the same way, so
\* lastLineWasErrorBlock has no effect and is left out.
showLine(st, line) ==
    IF Len(line) = 0 THEN st
    ELSE IF st.replaceLine
         THEN [st EXCEPT !.channel = rewritten(st.lines),
                         !.replaceLine = FALSE]
         ELSE [st EXCEPT !.channel = appendLine(st.channel, line)]

\* The one element of a set of one element; it names a value computed once.
Only(S) == CHOOSE x \in S : TRUE

RECURSIVE showLines(_, _)
showLines(st, diff) ==
    IF diff = <<>> THEN st
    ELSE Only({showLines(next, rest) : next \in {showLine(st, Head(diff))},
                                      rest \in {Tail(diff)}})

\* The reset without which the idle counter runs on while the log grows.
pushLines_NoReset(st, diff) ==
    Only({showLines(pushed, d) :
              pushed \in {[st EXCEPT !.lines = st.lines \o diff]},
              d \in {diff}})

\* currentMilliseconds = -1; lines.push(...diff); and the loop over diff
pushLines(st, diff) ==
    Only({showLines(pushed, d) :
              pushed \in {[st EXCEPT !.currentMilliseconds = -1,
                                     !.lines = st.lines \o diff]},
              d \in {diff}})

\* The try block: newLines is the log split at line feeds, diff its lines from
\* index lines.length on, trimmed.  readFileSync throws when there is no file.
slicedLines(newLines, from) ==
    trimAll(SubSeq(newLines, from + 1, Len(newLines)))

readLines(st, newLines) ==
    IF Len(newLines) > Len(st.lines)
    THEN pushLines(st, slicedLines(newLines, Len(st.lines)))
    ELSE st

readLog(st, log) ==
    IF ~log.exists THEN st
    ELSE Only({readLines(st, newLines) :
                   newLines \in {split(log.content, Newline)}})

\* currentMilliseconds = currentMilliseconds === -1 ? 0 : currentMilliseconds + 5000
countIdle(st) ==
    [st EXCEPT !.currentMilliseconds = IF @ = -1 THEN 0 ELSE @ + 5000]

\* if (currentMilliseconds >= 5000) { ... }
showWaiting(st) ==
    IF st.currentMilliseconds < 5000 THEN st
    ELSE IF st.replaceLine
         THEN [st EXCEPT !.channel =
                   rewritten(st.lines) \o <<Newline>>
                   \o waitingMessage(st.currentMilliseconds)]
         ELSE [st EXCEPT !.channel =
                   appendLine(st.channel, waitingMessage(st.currentMilliseconds)),
                         !.replaceLine = TRUE]

\* One pass of the loop body, from the end of the sleep to the loop test.
poll(st, log) ==
    Only({showWaiting(read) :
              read \in {readLog(counted, log) : counted \in {countIdle(st)}}})

\* while (!fs.existsSync(lockFile) && currentMilliseconds < maxMilliseconds)
loopContinues(lock, ms) == ~lock /\ ms < maxMilliseconds

\* runTerraformInit after waitForProcess: the log is read again as a whole.
initSucceeded(log) ==
    /\ log.exists
    /\ \/ includes(stripAnsiCodes(log.content), TerraformSuccess)
       \/ includes(stripAnsiCodes(log.content), OpenTofuSuccess)

\* What the init process may print, in the chunks it writes: whole lines, a
\* line in two pieces, several lines at once; with and without success.
Output_lines ==
    << <<"a", Newline>>, <<"b", Newline>>,
       <<AnsiCode, TerraformSuccess, "!", Newline>> >>
Output_pieces ==
    << <<"a">>, <<"b", Newline, "c", Newline>>,
       <<"d", Newline, OpenTofuSuccess, Newline>> >>
Output_failure == << <<"a", Newline, "b", Newline>>, <<"E", Newline>> >>
ProcessOutputs == {Output_lines, Output_pieces, Output_failure}

InitInit ==
    /\ processOutput \in ProcessOutputs
    /\ written = 0
    /\ logFile \in {NoFile, File(<<"o", "l", "d", Newline>>)}
    /\ initLock = FALSE
    /\ initPc = "idle"
    /\ waitLines = <<>> /\ currentMilliseconds = -1 /\ replaceLine = FALSE
    /\ outputWindow = <<>> /\ logSeen = <<>>
    /\ ResolverIdle
    /\ strategy = Text_high
    /\ CompareIdle
    /\ ExtensionIdle
    /\ SatisfiesIdle
    /\ DocumentIdle
    /\ DiagnosticsIdle
    /\ SchemaIdle

OtherThanInit ==
    <<resolverVars, compareVars, extensionVars, satisfiesVars, documentVars,
      diagnosticVars, schemaVars>>

\* waitForProcess returned: appendLine(''), then the rest of runTerraformInit.
Finish(channel) ==
    /\ outputWindow' =
           IF initSucceeded(logFile)
           THEN appendLine(appendLine(channel, <<>>), FinishedMessage)
           ELSE appendLine(appendLine(channel, <<>>), ErrorMessage)
    /\ initPc' = IF initSucceeded(logFile) THEN "finished" ELSE "failed"

\* runTerraformInit up to the first sleep: the header, the old log removed,
\* the command sent to the terminal, and the first loop test.
RunTerraformInit ==
    /\ initPc = "idle"
    /\ logFile' = NoFile
    /\ initPc' = "sleeping"
    /\ outputWindow' = appendLine(<<>>, Header)
    /\ UNCHANGED <<processOutput, written, initLock, waitLines,
                   currentMilliseconds, replaceLine, logSeen>>
    /\ UNCHANGED OtherThanInit

\* The shell opens the log for the redirection.
ProcessStarts ==
    /\ initPc # "idle"
    /\ written = 0 /\ ~logFile.exists
    /\ logFile' = File(<<>>)
    /\ UNCHANGED <<processOutput, written, initLock, initPc, waitLines,
                   currentMilliseconds, replaceLine, outputWindow, logSeen>>
    /\ UNCHANGED OtherThanInit

ProcessWrites ==
    /\ logFile.exists
    /\ written < Len(processOutput)
    /\ written' = written + 1
    /\ logFile' = File(logFile.content \o processOutput[written + 1])
    /\ UNCHANGED <<processOutput, initLock, initPc, waitLines,
                   currentMilliseconds, replaceLine, outputWindow, logSeen>>
    /\ UNCHANGED OtherThanInit

ProcessCreatesLockFile ==
    /\ logFile.exists
    /\ ~initLock
    /\ initLock' = TRUE
    /\ UNCHANGED <<processOutput, written, logFile, initPc, waitLines,
                   currentMilliseconds, replaceLine, outputWindow, logSeen>>
    /\ UNCHANGED OtherThanInit

Polled(st) ==
    /\ waitLines' = st.lines
    /\ currentMilliseconds' = st.currentMilliseconds
    /\ replaceLine' = st.replaceLine
    /\ logSeen' = IF logFile.exists THEN logFile.content ELSE logSeen
    /\ UNCHANGED <<processOutput, written, logFile, initLock>>
    /\ UNCHANGED OtherThanInit

\* The sleep ends, the body runs, and the loop test sends it to sleep again.
PollContinues ==
    /\ initPc = "sleeping"
    /\ \E st \in {poll(WaitState(waitLines, currentMilliseconds, replaceLine,
                                 outputWindow), logFile)} :
          /\ loopContinues(initLock, st.currentMilliseconds)
          /\ outputWindow' = st.channel
          /\ initPc' = "sleeping"
          /\ Polled(st)

\* The sleep ends, the body runs, and the loop test ends the loop.
PollReturns ==
    /\ initPc = "sleeping"
    /\ \E st \in {poll(WaitState(waitLines, currentMilliseconds, replaceLine,
                                 outputWindow), logFile)} :
          /\ ~loopContinues(initLock, st.currentMilliseconds)
          /\ Finish(st.channel)
          /\ Polled(st)

NextInit ==
    \/ RunTerraformInit
    \/ ProcessStarts
    \/ ProcessWrites
    \/ ProcessCreatesLockFile
    \/ PollContinues
    \/ PollReturns

SpecInit == InitInit /\ [][NextInit]_vars

\* The sleeps end: setTimeout fires while the extension host runs.
SpecInitFair == SpecInit /\ WF_vars(PollContinues \/ PollReturns)

----------------------------------------------------------------------------
(* Claims about the init process *)

\* A step of the loop of waitForProcess: every pass changes the idle counter
\* or the lines read.
PollStep ==
    /\ initPc = "sleeping"
    /\ <<waitLines, currentMilliseconds>>' # <<waitLines, currentMilliseconds>>

ReadsMoreLines ==
    logFile.exists /\ Len(split(logFile.content, Newline)) > Len(waitLines)

\* C23: waitForProcess terminates once the log stops growing.  A pass that
\* finds the lock file returns; a pass that reads more lines than before
\* resets the idle counter to -1 and goes on; any other pass raises the
\* counter from -1 to 0 or by 5000, and returns when it reaches 30000.
C23_WaitForProcessTerminates ==
    /\ [][PollStep =>
            /\ ReadsMoreLines => currentMilliseconds' = -1
            /\ ~ReadsMoreLines =>
                   currentMilliseconds' =
                       IF currentMilliseconds = -1 THEN 0
                       ELSE currentMilliseconds + 5000
            /\ initPc' = "sleeping"
                   <=> ~initLock /\ currentMilliseconds' < 30000]_vars
    /\ (initPc = "sleeping") ~> (initPc \in {"finished", "failed"})

C23_Witness ==
    /\ initPc = "failed"
    /\ ~initLock
    /\ currentMilliseconds = 30000
    /\ Len(waitLines) > 1
    /\ written = Len(processOutput)

\* C24: when the init process has created the lock file and written its
\* success message, runTerraformInit has not thrown.
C24_SuccessfulInitFinishes ==
    initPc = "failed" => ~(initLock /\ initSucceeded(logFile))

\* The lines of the channel below the header that are no waiting message.
IsWaitingLine(line) == Len(line) > 0 /\ line[1] = WaitingPrefix
ChannelLines == split(outputWindow, Newline)
LogLinesShown ==
    SelectSeq(Tail(ChannelLines),
              LAMBDA l : Len(l) > 0 /\ ~IsWaitingLine(l))
LogLinesRead == nonEmpty(trimAll(split(logSeen, Newline)))

\* C25: during waitForProcess the channel shows the header, then each
\* non-empty log line read so far once and in order, and at most one
\* waiting message.
C25_ChannelShowsLinesOnce ==
    initPc = "sleeping"
    => /\ Head(ChannelLines) = Header
       /\ LogLinesShown = LogLinesRead
       /\ Cardinality({i \in 1..Len(ChannelLines) :
                           IsWaitingLine(ChannelLines[i])}) <= 1

----------------------------------------------------------------------------
(* The diagnostics listeners *)

MaxEvents == 2

\* Texts a document may hold: one with a data source, an assignment and a
\* module declaration, and one with no declaration.
Text_declarations == <<Line_declaration, Line_assignment, Line_module>>
Text_plain == <<Line_assignment>>
Texts == {Text_declarations, Text_plain}

OpenDocument(text) == [open |-> TRUE, text |-> text]

\* The test without fs.existsSync(lockFilePath).
documentDiagnostics_NoLockFileTest(d, text, locks) ==
    IF languageId(d) # "terraform" THEN <<>>
    ELSE checkForMissingLockFile(text)

\* checkForMissingLockFile with its two early returns: the language of the
\* document and the lock file beside it.
documentDiagnostics(d, text, locks) ==
    IF languageId(d) # "terraform" THEN <<>>
    ELSE IF locks[dirname(d)] THEN <<>>
    ELSE checkForMissingLockFile(text)

\* diagnosticCollection.set(document.uri, checkForMissingLockFile(document))
updateDiagnostics(collection, d, docs, locks) ==
    [collection EXCEPT ![d] = documentDiagnostics(d, docs[d].text, locks)]

\* textDocuments.forEach(doc => { if (doc.languageId === 'terraform') ... })
refreshTerraformDocuments(collection, docs, locks) ==
    [d \in DocumentNames |->
        IF docs[d].open /\ languageId(d) = "terraform"
        THEN documentDiagnostics(d, docs[d].text, locks)
        ELSE collection[d]]

NoEvent == [event |-> "none", document |-> NoEditor]
Event(name, d) == [event |-> name, document |-> d]

\* setupDiagnosticEventListeners has run: the document of the active editor,
\* if there is one, has its diagnostics.
InitDiagnostics ==
    /\ textDocuments \in
           [DocumentNames -> {ClosedDocument} \cup {OpenDocument(t) : t \in Texts}]
    /\ activeTextEditor \in
           {NoEditor} \cup {d \in DocumentNames : textDocuments[d].open}
    /\ lockFiles \in [Directories -> BOOLEAN]
    /\ watcherEvents = 0
    /\ diagnosticCollection =
           IF activeTextEditor = NoEditor
           THEN [d \in DocumentNames |-> <<>>]
           ELSE updateDiagnostics([d \in DocumentNames |-> <<>>],
                                  activeTextEditor, textDocuments, lockFiles)
    /\ handled = IF activeTextEditor = NoEditor THEN NoEvent
                 ELSE Event("setup", activeTextEditor)
    /\ ResolverIdle
    /\ strategy = Text_high
    /\ CompareIdle
    /\ ExtensionIdle
    /\ SatisfiesIdle
    /\ DocumentIdle
    /\ InitIdle
    /\ SchemaIdle

OtherThanDiagnostics ==
    <<resolverVars, compareVars, extensionVars, satisfiesVars, documentVars,
      initVars, schemaVars>>

\* onDidOpenTextDocument(updateDiagnostics)
OpenTextDocument ==
    \E d \in DocumentNames, t \in Texts :
        /\ ~textDocuments[d].open
        /\ textDocuments' = [textDocuments EXCEPT ![d] = OpenDocument(t)]
        /\ diagnosticCollection' =
               updateDiagnostics(diagnosticCollection, d, textDocuments', lockFiles)
        /\ handled' = Event("open", d)
        /\ UNCHANGED <<activeTextEditor, lockFiles, watcherEvents>>
        /\ UNCHANGED OtherThanDiagnostics

\* onDidChangeTextDocument(event => updateDiagnostics(event.document))
ChangeTextDocument ==
    \E d \in DocumentNames, t \in Texts :
        /\ textDocuments[d].open
        /\ textDocuments[d].text # t
        /\ textDocuments' = [textDocuments EXCEPT ![d] = OpenDocument(t)]
        /\ diagnosticCollection' =
               updateDiagnostics(diagnosticCollection, d, textDocuments', lockFiles)
        /\ handled' = Event("change", d)
        /\ UNCHANGED <<activeTextEditor, lockFiles, watcherEvents>>
        /\ UNCHANGED OtherThanDiagnostics

\* onDidChangeActiveTextEditor(editor => { if (editor) ... })
ChangeActiveTextEditor ==
    \E e \in {NoEditor} \cup {d \in DocumentNames : textDocuments[d].open} :
        /\ e # activeTextEditor
        /\ activeTextEditor' = e
        /\ diagnosticCollection' =
               IF e = NoEditor THEN diagnosticCollection
               ELSE updateDiagnostics(diagnosticCollection, e, textDocuments,
                                      lockFiles)
        /\ handled' = IF e = NoEditor THEN NoEvent ELSE Event("active", e)
        /\ UNCHANGED <<textDocuments, lockFiles, watcherEvents>>
        /\ UNCHANGED OtherThanDiagnostics

\* A lock file appears on disk; the watcher will report it.
LockFileCreated ==
    \E dir \in Directories :
        /\ ~lockFiles[dir]
        /\ watcherEvents < MaxEvents
        /\ lockFiles' = [lockFiles EXCEPT ![dir] = TRUE]
        /\ watcherEvents' = watcherEvents + 1
        /\ handled' = NoEvent
        /\ UNCHANGED <<textDocuments, activeTextEditor, diagnosticCollection>>
        /\ UNCHANGED OtherThanDiagnostics

LockFileDeleted ==
    \E dir \in Directories :
        /\ lockFiles[dir]
        /\ watcherEvents < MaxEvents
        /\ lockFiles' = [lockFiles EXCEPT ![dir] = FALSE]
        /\ watcherEvents' = watcherEvents + 1
        /\ handled' = NoEvent
        /\ UNCHANGED <<textDocuments, activeTextEditor, diagnosticCollection>>
        /\ UNCHANGED OtherThanDiagnostics

\* fileWatcher.onDidCreate / onDidDelete: the two handlers are the same.
WatcherFires ==
    /\ watcherEvents > 0
    /\ watcherEvents' = watcherEvents - 1
    /\ diagnosticCollection' =
           refreshTerraformDocuments(diagnosticCollection, textDocuments,
                                     lockFiles)
    /\ handled' = Event("watcher", NoEditor)
    /\ UNCHANGED <<textDocuments, activeTextEditor, lockFiles>>
    /\ UNCHANGED OtherThanDiagnostics

NextDiagnostics ==
    \/ OpenTextDocument
    \/ ChangeTextDocument
    \/ ChangeActiveTextEditor
    \/ LockFileCreated
    \/ LockFileDeleted
    \/ WatcherFires

SpecDiagnostics == InitDiagnostics /\ [][NextDiagnostics]_vars

----------------------------------------------------------------------------
(* Claims about the diagnostics listeners *)

\* The documents the handler that has just run was about.
Affected ==
    IF handled.event = "none" THEN {}
    ELSE IF handled.event = "watcher"
         THEN {d \in DocumentNames :
                   textDocuments[d].open /\ languageId(d) = "terraform"}
         ELSE {handled.document}

IsDeclarationLine(line) == RESOURCE_REGEX(line) \/ MODULE_REGEX(line)

----------------------------------------------------------------------------
(* The provider schema fetch *)

checkInterval == 100
schemaTimeout == 10000
MaxPolls == 2

\* The resource asked for is in the provider schema or is not.
ResourceNames == {"known", "unknown"}

\* What the schema command prints: a JSON document, or an error message.
CommandKinds == {"json", "error"}
JsonOutput == <<"{", "k", "}">>
ErrorOutput == <<"E", "r">>
commandOutput(kind) == IF kind = "json" THEN JsonOutput ELSE ErrorOutput

\* A byte of a file that nothing has written.
Hole == "NUL"

\* write(2) through a descriptor opened by `>`: at the writer's own offset.
writeAt(content, offset, ch) ==
    IF offset < Len(content) THEN [content EXCEPT ![offset + 1] = ch]
    ELSE content \o [i \in 1..(offset - Len(content)) |-> Hole] \o <<ch>>

\* content.trim().startsWith('{') || content.trim().startsWith('[')
looksLikeJson(content) ==
    startsWith(trim(content), <<"{">>) \/ startsWith(trim(content), <<"[">>)

\* JSON.parse on the texts the command can leave: an object is complete when
\* its brace is closed.
parses(t) ==
    /\ Len(t) >= 2
    /\ t[1] = "{" /\ t[Len(t)] = "}"
    /\ \A i \in 2..(Len(t) - 1) : t[i] = "k"
JSONparse(content) == IF parses(trim(content)) THEN "schema" ELSE "SyntaxError"

\* One run of checkFile in waitForSchemaOutput.
checkFile(file, elapsed) ==
    IF elapsed > schemaTimeout THEN "timeout"
    ELSE IF file.exists /\ looksLikeJson(file.content) THEN "content"
    ELSE "again"

\* schemas && schemas[resourceName]
findResource(schema, name) == schema = "schema" /\ name = "known"

\* schemaCache.has(cacheKey)
cacheHas(cache, key) == cache[key] # "absent"

InitSchema ==
    /\ schemaCache = [dir \in WorkingDirectories |-> "absent"]
    /\ diskCache = [dir \in WorkingDirectories |-> FALSE]
    /\ schemaLock \in [WorkingDirectories -> BOOLEAN]
    /\ fetch = [c \in SchemaCallers |-> NoFetch]
    /\ outputFile = [dir \in WorkingDirectories |-> NoFile]
    /\ command = [c \in SchemaCallers |-> NoCommand]
    /\ failedFetch = [dir \in WorkingDirectories |-> FALSE]
    /\ ResolverIdle
    /\ strategy = Text_high
    /\ CompareIdle
    /\ ExtensionIdle
    /\ SatisfiesIdle
    /\ DocumentIdle
    /\ InitIdle
    /\ DiagnosticsIdle

OtherThanSchema ==
    <<resolverVars, compareVars, extensionVars, satisfiesVars, documentVars,
      initVars, diagnosticVars>>

Done(d, name, kind, polls, how, result) ==
    [pc |-> "done", dir |-> d, name |-> name, polls |-> polls, kind |-> kind,
     how |-> how, result |-> result]

\* The rest of fetchResourceDocumentation once it has a schema or null: the
\* resource is looked up and its documentation saved to disk.
Returned(c, d, name, kind, polls, how, schema) ==
    /\ fetch' = [fetch EXCEPT ![c] =
           Done(d, name, kind, polls, how,
                IF findResource(schema, name) THEN "docs" ELSE "null")]
    /\ diskCache' = [diskCache EXCEPT ![d] = @ \/ findResource(schema, name)]

\* fetchProviderSchema after waitForSchemaOutput resolved with null, or
\* JSON.parse threw: null is returned and stored.
Failed(c, d, name, kind, polls, how) ==
    /\ schemaCache' = [schemaCache EXCEPT ![d] = "null"]
    /\ failedFetch' = [failedFetch EXCEPT ![d] = TRUE]
    /\ Returned(c, d, name, kind, polls, how, "null")

\* waitForSchemaOutput resolved with the content: the file is unlinked, the
\* terminal disposed of, the content parsed and the outcome stored.
Resolved(c, d, name, kind, polls, content) ==
    /\ outputFile' = [outputFile EXCEPT ![d] = NoFile]
    /\ command' = [k \in SchemaCallers |->
           IF k = c THEN NoCommand
           ELSE IF fetch[k].dir = d THEN [command[k] EXCEPT !.attached = FALSE]
           ELSE command[k]]
    /\ IF JSONparse(content) = "schema"
       THEN /\ schemaCache' = [schemaCache EXCEPT ![d] = "schema"]
            /\ UNCHANGED failedFetch
            /\ Returned(c, d, name, kind, polls, "parsed", "schema")
       ELSE Failed(c, d, name, kind, polls, "parseError")

\* checkFile has run after `elapsed` ms, with the command in state cmd.
Checked(c, d, name, kind, polls, elapsed, cmd) ==
    \/ /\ checkFile(outputFile[d], elapsed) = "again"
       /\ fetch' = [fetch EXCEPT ![c] =
              [pc |-> "polling", dir |-> d, name |-> name, polls |-> polls,
               kind |-> kind, how |-> "none", result |-> "none"]]
       /\ command' = [command EXCEPT ![c] = cmd]
       /\ UNCHANGED <<schemaCache, diskCache, outputFile, failedFetch>>
    \/ /\ checkFile(outputFile[d], elapsed) = "timeout"
       /\ command' = [command EXCEPT ![c] = NoCommand]
       /\ UNCHANGED outputFile
       /\ Failed(c, d, name, kind, polls, "timeout")
    \/ /\ checkFile(outputFile[d], elapsed) = "content"
       /\ Resolved(c, d, name, kind, polls, outputFile[d].content)

\* fetchResourceDocumentation up to its return or to the first setTimeout of
\* waitForSchemaOutput.
FetchResourceDocumentation ==
    \E c \in SchemaCallers, d \in WorkingDirectories, name \in ResourceNames,
       kind \in CommandKinds :
        /\ fetch[c].pc \in {"idle", "done"}
        /\ IF ~schemaLock[d]
           THEN /\ fetch' = [fetch EXCEPT ![c] =
                       Done(d, name, "none", 0, "noLockFile", "null")]
                /\ UNCHANGED <<schemaCache, diskCache, outputFile, command,
                               failedFetch>>
           ELSE IF diskCache[d] /\ name = "known"
           THEN /\ fetch' = [fetch EXCEPT ![c] =
                       Done(d, name, "none", 0, "disk", "docs")]
                /\ UNCHANGED <<schemaCache, diskCache, outputFile, command,
                               failedFetch>>
           ELSE IF cacheHas(schemaCache, d)
           THEN /\ Returned(c, d, name, "none", 0, "memory", schemaCache[d])
                /\ UNCHANGED <<schemaCache, outputFile, command, failedFetch>>
           ELSE Checked(c, d, name, kind, 0, 0,
                        [state |-> "sent", kind |-> kind, written |-> 0,
                         attached |-> FALSE])
        /\ UNCHANGED schemaLock
        /\ UNCHANGED OtherThanSchema

\* setTimeout(checkFile, checkInterval) fires: in time, or (the extension
\* host was busy) only after the timeout has passed.
TimerFires ==
    \E c \in SchemaCallers, late \in BOOLEAN :
        /\ fetch[c].pc = "polling"
        /\ late \/ fetch[c].polls < MaxPolls
        /\ Checked(c, fetch[c].dir, fetch[c].name, fetch[c].kind,
                   fetch[c].polls + 1,
                   IF late THEN schemaTimeout + checkInterval
                   ELSE (fetch[c].polls + 1) * checkInterval,
                   command[c])
        /\ UNCHANGED schemaLock
        /\ UNCHANGED OtherThanSchema

\* The shell runs the line sent to the terminal: `>` creates or truncates.
CommandStarts ==
    \E c \in SchemaCallers :
        /\ command[c].state = "sent"
        /\ outputFile' = [outputFile EXCEPT ![fetch[c].dir] = File(<<>>)]
        /\ command' = [command EXCEPT ![c].state = "writing",
                                      ![c].attached = TRUE]
        /\ UNCHANGED <<schemaCache, diskCache, schemaLock, fetch, failedFetch>>
        /\ UNCHANGED OtherThanSchema

\* The command writes the next piece of its output.
CommandWrites ==
    \E c \in SchemaCallers :
        /\ command[c].state = "writing"
        /\ command[c].written < Len(commandOutput(command[c].kind))
        /\ command' = [command EXCEPT ![c].written = @ + 1]
        /\ outputFile' =
               IF command[c].attached
               THEN [outputFile EXCEPT ![fetch[c].dir] =
                        File(writeAt(@.content, command[c].written,
                                     commandOutput(command[c].kind)
                                         [command[c].written + 1]))]
               ELSE outputFile
        /\ UNCHANGED <<schemaCache, diskCache, schemaLock, fetch, failedFetch>>
        /\ UNCHANGED OtherThanSchema

\* clearDocumentationCache()
ClearDocumentationCache ==
    /\ \E d \in WorkingDirectories : schemaCache[d] # "absent"
    /\ schemaCache' = [d \in WorkingDirectories |-> "absent"]
    /\ failedFetch' = [d \in WorkingDirectories |-> FALSE]
    /\ UNCHANGED <<diskCache, schemaLock, fetch, outputFile, command>>
    /\ UNCHANGED OtherThanSchema

\* clearDiskCache(workingDirectory)
ClearDiskCache ==
    \E d \in WorkingDirectories :
        /\ diskCache[d]
        /\ diskCache' = [diskCache EXCEPT ![d] = FALSE]
        /\ UNCHANGED <<schemaCache, schemaLock, fetch, outputFile, command,
                       failedFetch>>
        /\ UNCHANGED OtherThanSchema

NextSchema ==
    \/ FetchResourceDocumentation
    \/ TimerFires
    \/ CommandStarts
    \/ CommandWrites
    \/ ClearDocumentationCache
    \/ ClearDiskCache

SpecSchema == InitSchema /\ [][NextSchema]_vars

----------------------------------------------------------------------------
(* Claims about the provider schema fetch *)

\* C28: a fetch whose command prints a JSON document, and which ended before
\* the timeout had passed, ended with the parsed schema.
C28_SchemaReturnedWhenWritten ==
    \A c \in SchemaCallers :
        /\ fetch[c].pc = "done"
        /\ fetch[c].kind = "json"
        /\ fetch[c].how # "timeout"
        => fetch[c].how = "parsed"

\* A call of fetchResourceDocumentation by c for directory d begins.
CallBegins(c, d) ==
    /\ fetch[c].pc \in {"idle", "done"}
    /\ fetch'[c] # fetch[c]
    /\ fetch'[c].dir = d

\* The call by c ends in this step after running the schema command.
FetchEnds(c) ==
    /\ fetch'[c].pc = "done"
    /\ fetch'[c] # fetch[c]
    /\ fetch'[c].how \in {"parsed", "parseError", "timeout"}

\* C29: a failed fetch stores null for its directory; from then until
\* clearDocumentationCache every call for the directory that finds the lock
\* file and misses the disk cache returns null and runs no command; and a
\* call that finds a schema in the cache runs no command either.
C29_FailedFetchStaysCached ==
    [][\A c \in SchemaCallers, d \in WorkingDirectories :
          /\ FetchEnds(c) /\ fetch'[c].dir = d /\ fetch'[c].how # "parsed"
             => schemaCache'[d] = "null"
          /\ CallBegins(c, d) /\ failedFetch[d] /\ schemaLock[d]
                /\ ~(diskCache[d] /\ fetch'[c].name = "known")
             => /\ fetch'[c].pc = "done"
                /\ fetch'[c].result = "null"
                /\ command'[c] = NoCommand
          /\ CallBegins(c, d) /\ schemaCache[d] = "schema"
             => fetch'[c].pc = "done" /\ command'[c] = NoCommand]_vars

====
